---- MODULE Spec2Model ----
(***************************************************************************)
(* WriteIQ (lukasbecvar/write-iq): the orchestration layer of the main     *)
(* window (src/src/ui.py), its UI state manager (src/src/ui_state.py), the *)
(* two background threads (src/src/services/gemini_service.py) and the     *)
(* settings dialog (src/src/dialogs.py).                                   *)
(*                                                                         *)
(* Text values are sequences of one-character strings; a fixed literal of  *)
(* the program is one token of such a sequence.  An optional value is a    *)
(* sequence of length at most one: None is <<>>, Some(x) is <<x>>.         *)
(*                                                                         *)
(* The interactive thread runs one handler at a time.  A handler that      *)
(* opens a modal window (QMessageBox, QDialog.exec) stops there: the modal *)
(* window is a frame on `stack`, the nested event loop goes on delivering  *)
(* queued signals and timers, and the rest of the handler runs when the    *)
(* frame is closed.  Signals emitted by a thread are queued connections:   *)
(* they enter `queue` and are handled on the interactive thread in order.  *)
(***************************************************************************)
EXTENDS Integers, Sequences, FiniteSets

VARIABLES
    app,         \* TextHelperApp: api_key, gemini_service, worker, _key_validator, ...
    ui,          \* the widgets UIStateManager owns: buttons and the status label
    output,      \* output_edit.toPlainText()
    lang_combo,  \* the language selector: current code, visibility
    clipboard,   \* QApplication.clipboard() text, None before any copy
    disk,        \* what save_config last wrote, None before any save
    timers,      \* pending QTimer.singleShot callbacks
    stack,       \* open modal windows, innermost last
    queue,       \* queued signal deliveries to the interactive thread
    workers,     \* live GeminiStreamWorker threads, by id
    validators,  \* live GeminiKeyValidator threads, by id
    started,     \* how many threads of each kind have been started so far
    calls,       \* what the last handler called outside the window: GeminiService(...),
                 \* save_config, clipboard().setText, QThread.wait
    direct       \* the methods that are also called directly, as a test calls them

vars == <<app, ui, output, lang_combo, clipboard, disk, timers, stack, queue,
          workers, validators, started, calls, direct>>

---------------------------------------------------------------------------
(* Bounds of the model *)

\* requests the window starts (GeminiStreamWorker threads)
MaxWorkers == 2
\* validations the window starts (GeminiKeyValidator threads)
MaxValidators == 2
\* text fragments one stream yields
MaxChunks == 2
\* timed copy-button resets pending at the same time
MaxCopyTimers == 1

---------------------------------------------------------------------------
(* Values *)

None == <<>>
Some(x) == <<x>>
IsNone(o) == o = <<>>
Val(o) == o[1]

\* the two pictographs the program puts in front of messages
WARN == "(!)"
DONE == "(v)"
Space == {" ", "\n"}

\* text fragments the backend sends; the empty one carries no text
RawChunks == {<<>>, <<"a">>, <<" ">>}
\* exceptions a stream can end with: class and str(exc)
StreamErrors == {[cls |-> "RuntimeError", msg |-> <<>>],
                 [cls |-> "GeminiAPIError", msg |-> <<"boom">>]}
\* what the user types into input_edit
Inputs == {<<>>, <<" ">>, <<"x">>}
\* failures of the validation round trip: class and str(exc)
BackendErrors == {[cls |-> "PermissionDenied", msg |-> <<"bad key">>]}

Min(S) == CHOOSE x \in S : \A y \in S : x <= y
Max(S) == CHOOSE x \in S : \A y \in S : x >= y

\* a strip() that would trim nothing
strip_nothing(s) == s

\* str.strip()
strip(s) ==
    LET keep == {i \in 1..Len(s) : s[i] \notin Space}
    IN IF keep = {} THEN <<>> ELSE SubSeq(s, Min(keep), Max(keep))

\* bool(str): the empty string is falsy
Truthy(s) == s # <<>>

---------------------------------------------------------------------------
(* src/src/models.py, src/src/prompts.py *)

DEFAULT_MODEL_NAME == "gemini-2.5-flash"
MODEL_OPTIONS ==
    <<[name |-> DEFAULT_MODEL_NAME, label |-> "Gemini 2.5 Flash (speed)"],
      [name |-> "gemini-1.5-pro", label |-> "Gemini 1.5 Pro (quality)"]>>

\* MODEL_LABEL_BY_NAME.get(name, name)
MODEL_LABEL_BY_NAME(name) ==
    LET hits == {i \in 1..Len(MODEL_OPTIONS) : MODEL_OPTIONS[i].name = name}
    IN IF hits = {} THEN name ELSE MODEL_OPTIONS[Max(hits)].label

Language ==
    <<[code |-> "en", label |-> "English"],  [code |-> "cs", label |-> "Czech"],
      [code |-> "de", label |-> "German"],   [code |-> "fr", label |-> "French"],
      [code |-> "es", label |-> "Spanish"],  [code |-> "it", label |-> "Italian"],
      [code |-> "pl", label |-> "Polish"],   [code |-> "pt", label |-> "Portuguese"],
      [code |-> "ru", label |-> "Russian"],  [code |-> "ja", label |-> "Japanese"],
      [code |-> "zh", label |-> "Chinese"]>>
LanguageCodes == {Language[i].code : i \in 1..Len(Language)}
DEFAULT_LANGUAGE_CODE == Language[1].code

\* LANGUAGE_LABEL_BY_CODE.get(code)
LANGUAGE_LABEL_BY_CODE(code) ==
    LET hits == {i \in 1..Len(Language) : Language[i].code = code}
    IN IF hits = {} THEN None ELSE Some(Language[Max(hits)].label)

\* language codes the user picks in the selector
LangChoices == {"en", "cs"}

\* str.lower() and str.upper() on the codes the model uses
lower(c) == CASE c = "CS" -> "cs" [] c = "EN" -> "en" [] c = "DE" -> "de"
              [] c = "FR" -> "fr" [] c = "ES" -> "es" [] c = "IT" -> "it"
              [] c = "PL" -> "pl" [] c = "PT" -> "pt" [] c = "RU" -> "ru"
              [] c = "JA" -> "ja" [] c = "ZH" -> "zh" [] OTHER -> c
upper(c) == CASE c = "cs" -> "CS" [] c = "en" -> "EN" [] c = "de" -> "DE"
              [] c = "fr" -> "FR" [] c = "es" -> "ES" [] c = "it" -> "IT"
              [] c = "pl" -> "PL" [] c = "pt" -> "PT" [] c = "ru" -> "RU"
              [] c = "ja" -> "JA" [] c = "zh" -> "ZH" [] OTHER -> c

\* Language.from_code: the first language whose code is the lower-cased code, else ENGLISH
from_code(code) ==
    LET normalized == lower(code)
        hits == {i \in 1..Len(Language) : Language[i].code = normalized}
    IN IF hits = {} THEN Language[1] ELSE Language[Min(hits)]

\* a grammar prompt that would put the instructions after the text
build_grammar_prompt_text_first(text) ==
    text \o <<"\n", "\n", "You are an expert proofreader. ... without explanations.">>

build_grammar_prompt(text) ==
    <<"You are an expert proofreader. ... without explanations.", "\n", "\n">> \o text

build_translation_prompt(text, target_language) ==
    <<"Translate the following text into ", target_language.label, " (",
      upper(target_language.code), "). ", "Detect ... Return only the translated text.",
      "\n", "\n">> \o text

---------------------------------------------------------------------------
(* src/src/ui_state.py: UIStateManager, on the record of the widgets it owns *)

SUBMIT_DEFAULT_TEXT == "Process"
COPY_DEFAULT_TEXT == "Copy"

set_status(u, message) == [u EXCEPT !.status = message]

\* a start_processing that would leave the copy button as it is
start_processing_keeping_copy(u) ==
    [u EXCEPT !.submit_text = "Generating", !.submit_enabled = FALSE,
              !.clear_enabled = FALSE]

start_processing(u) ==
    [u EXCEPT !.submit_text = "Generating", !.submit_enabled = FALSE,
              !.clear_enabled = FALSE, !.copy_enabled = FALSE]

\* a set_ready that would not restore the label of the copy button
set_ready_keeping_copy_label(u, message, copy_available) ==
    [u EXCEPT !.submit_text = SUBMIT_DEFAULT_TEXT, !.submit_enabled = TRUE,
              !.clear_enabled = TRUE,
              !.copy_enabled = copy_available, !.status = message]

set_ready(u, message, copy_available) ==
    [u EXCEPT !.submit_text = SUBMIT_DEFAULT_TEXT, !.submit_enabled = TRUE,
              !.clear_enabled = TRUE, !.copy_text = COPY_DEFAULT_TEXT,
              !.copy_enabled = copy_available, !.status = message]

mark_cleared(u) == set_ready(u, <<"Cleared.">>, FALSE)

mark_copy_success(u) == [u EXCEPT !.copy_text = "Copied", !.copy_enabled = FALSE]

reset_copy_button(u, copy_available) ==
    [u EXCEPT !.copy_text = COPY_DEFAULT_TEXT, !.copy_enabled = copy_available]

\* f"(!) {message}"
Warning(message) == <<WARN, " ">> \o message

---------------------------------------------------------------------------
(* src/src/services/gemini_service.py: the two threads *)

Ev(sig, arg) == [sig |-> sig, arg |-> arg]

\* an except clause that would match the named class only, not its subclasses
IsInstance_exact(exc, cls) == exc.cls = cls

\* isinstance(exc, cls) for the classes of an except clause
IsInstance(exc, cls) ==
    \/ cls = "Exception"
    \/ exc.cls = cls

\* _configure_client: an empty key is refused before the backend is touched
configure_client_raises(api_key) == ~Truthy(api_key)

\* GeminiService.stream_prompt forwards a fragment iff its text is truthy
stream_prompt_yields(chunk) == Truthy(chunk)

\* a run() that would hand fragments over newest first
StreamWorker_run_newest_first(t, item) ==
    CASE item.kind = "chunk" ->
           [t EXCEPT !.events = <<Ev("partial", item.text)>> \o @]
      [] item.kind = "raise" ->
           [t EXCEPT !.events = @ \o <<Ev("error", item.exc.msg), Ev("finished", <<>>)>>,
                     !.pc = "returning"]
      [] OTHER ->
           [t EXCEPT !.events = Append(@, Ev("finished", <<>>)), !.pc = "returning"]

\* GeminiStreamWorker.run on the next thing the stream does: a fragment
\* (kind "chunk"), an exception (kind "raise") or its end (kind "stop").
\* After the last emit run() returns and the thread winds down (pc "returning");
\* it is still running until it has ended (pc "stopped").
\* a run() that would emit finished after the loop instead of in a finally clause
StreamWorker_run_without_finally(t, item) ==
    CASE item.kind = "chunk" ->
           [t EXCEPT !.events = Append(@, Ev("partial", item.text))]
      [] item.kind = "raise" ->
           IF IsInstance(item.exc, "Exception")
           THEN [t EXCEPT !.events = Append(@, Ev("error", item.exc.msg)),
                          !.pc = "returning"]
           ELSE [t EXCEPT !.pc = "returning", !.escaped = TRUE]
      [] OTHER ->
           [t EXCEPT !.events = Append(@, Ev("finished", <<>>)), !.pc = "returning"]

StreamWorker_run(t, item) ==
    CASE item.kind = "chunk" ->
           [t EXCEPT !.events = Append(@, Ev("partial", item.text))]
      [] item.kind = "raise" ->
           IF IsInstance(item.exc, "Exception")
           THEN [t EXCEPT !.events = @ \o <<Ev("error", item.exc.msg), Ev("finished", <<>>)>>,
                          !.pc = "returning"]
           ELSE [t EXCEPT !.events = Append(@, Ev("finished", <<>>)),
                          !.pc = "returning", !.escaped = TRUE]
      [] OTHER ->
           [t EXCEPT !.events = Append(@, Ev("finished", <<>>)), !.pc = "returning"]

\* GeminiService.validate_api_key: every exception leaves as a GeminiAPIError
\* carrying str(exc).  `backend` is what the round trip does.
validate_api_key(key, backend) ==
    IF configure_client_raises(key)
    THEN [kind |-> "raise", exc |-> [cls |-> "GeminiAPIError", msg |-> <<"API key is empty.">>]]
    ELSE IF backend.kind = "raise"
    THEN [kind |-> "raise", exc |-> [cls |-> "GeminiAPIError", msg |-> backend.exc.msg]]
    ELSE [kind |-> "ok"]

\* GeminiKeyValidator.__init__
KeyValidator_init(api_key, model_name, slot, dialog, payload) ==
    [api_key |-> strip(api_key), given_key |-> api_key, model_name |-> model_name,
     slot |-> slot, dialog |-> dialog, payload |-> payload,
     pc |-> "run", calls |-> <<>>, result |-> None, events |-> <<>>,
     interrupted |-> FALSE]

\* a run() whose success emit would sit in a finally clause instead of the else clause
KeyValidator_run_success_in_finally(v, result) ==
    LET called == [v EXCEPT !.calls = Append(@, [key |-> v.api_key, model_name |-> v.model_name]),
                            !.pc = "returning"]
    IN IF result.kind = "ok"
       THEN [called EXCEPT !.events = Append(@, Ev("success", v.api_key))]
       ELSE [called EXCEPT !.events = @ \o <<Ev("failure", result.exc.msg),
                                              Ev("success", v.api_key)>>]

\* GeminiKeyValidator.run on the result of its validation call
KeyValidator_run(v, result) ==
    LET called == [v EXCEPT !.calls = Append(@, [key |-> v.api_key, model_name |-> v.model_name]),
                            !.pc = "returning"]
    IN CASE result.kind = "ok" ->
              [called EXCEPT !.events = Append(@, Ev("success", v.api_key))]
         [] result.kind = "raise" /\ IsInstance(result.exc, "GeminiAPIError") ->
              [called EXCEPT !.events = Append(@, Ev("failure", result.exc.msg))]
         [] OTHER ->
              [called EXCEPT !.events =
                   Append(@, Ev("failure", <<"Unexpected error: ">> \o result.exc.msg))]

\* the thread ends after run() has returned
QThread_exit(t) == [t EXCEPT !.pc = "stopped"]

\* GeminiStreamWorker.__init__ and start()
StreamWorker_init(service, prompt) ==
    [service |-> service, prompt |-> prompt, pc |-> "iter", yielded |-> <<>>,
     raised |-> None, events |-> <<>>, interrupted |-> FALSE, escaped |-> FALSE,
     deleted |-> FALSE]

\* QThread.isRunning()
isRunning(t) == t.pc # "stopped"

---------------------------------------------------------------------------
(* The program state as one record, so that a handler is a function from   *)
(* state to state and a handler that calls another composes them.          *)

World ==
    [app |-> app, ui |-> ui, output |-> output, lang_combo |-> lang_combo,
     clipboard |-> clipboard, disk |-> disk, timers |-> timers, stack |-> stack,
     queue |-> queue, workers |-> workers, validators |-> validators,
     started |-> started, calls |-> <<>>]

\* the handler calls `fn` of a collaborator
Called(w, fn, arg) == [w EXCEPT !.calls = Append(@, [fn |-> fn, arg |-> arg])]

FreeIds(used, n) == {i \in 1..n : i \notin used}

\* threads are numbered in the order they are started
WithThread(threads, id, t) == [i \in DOMAIN threads \cup {id} |-> IF i = id THEN t ELSE threads[i]]

\* QMessageBox.warning / information / critical: a modal window; `then` names
\* what the handler that opened it does once it is dismissed.  `caller` of a
\* dialog names the handler its exec() returns into, when that is not the event loop.
Msg(icon, title, then) ==
    [k |-> "msg", id |-> 0, icon |-> icon, title |-> title, then |-> then, caller |-> "",
     require_key |-> FALSE, initial_api_key |-> <<>>, busy |-> FALSE,
     final_settings |-> None, status |-> <<>>, result |-> "open"]

\* SettingsDialog.__init__ and set_settings
SettingsDialog_init(id, api_key, require_key) ==
    [k |-> "dlg", id |-> id, icon |-> "", title |-> "Settings", then |-> "", caller |-> "",
     require_key |-> require_key, initial_api_key |-> strip(api_key), busy |-> FALSE,
     final_settings |-> None, status |-> <<>>, result |-> "open"]

Push(w, frame) == [w EXCEPT !.stack = Append(@, frame)]
Pop(w) == [w EXCEPT !.stack = SubSeq(@, 1, Len(@) - 1)]

DialogIdsInUse(w) ==
    {w.stack[i].id : i \in 1..Len(w.stack)}
        \cup {w.validators[v].dialog : v \in DOMAIN w.validators}

NoPayload == [api_key |-> <<>>, default_language |-> "", model_name |-> ""]

---------------------------------------------------------------------------
(* src/src/ui.py: TextHelperApp *)

set_app_status(w, message) == [w EXCEPT !.ui = set_status(@, message)]

\* an _on_language_changed that would store the selected language as the default one
on_language_changed_storing_default(w) ==
    LET stored == [w EXCEPT !.app.settings.default_language = w.lang_combo.code]
    IN IF w.app.mode = "translate"
       THEN set_app_status(stored, <<"Translate mode to ", from_code(w.lang_combo.code).label, ".">>)
       ELSE stored

\* _on_language_changed
on_language_changed(w) ==
    IF w.app.mode = "translate"
    THEN set_app_status(w, <<"Translate mode to ", from_code(w.lang_combo.code).label, ".">>)
    ELSE w

\* QComboBox.setCurrentIndex: currentIndexChanged fires iff the index changes
setCurrentCode(w, code) ==
    IF w.lang_combo.code = code THEN w
    ELSE on_language_changed([w EXCEPT !.lang_combo.code = code])

\* a _set_language_selection that would keep the selection when the code is not found
set_language_selection_keeping(w, language_code) ==
    IF language_code \in LanguageCodes THEN setCurrentCode(w, language_code) ELSE w

\* _set_language_selection: findData is an exact match on the selector's codes
set_language_selection(w, language_code) ==
    IF language_code \in LanguageCodes THEN setCurrentCode(w, language_code)
    ELSE IF DEFAULT_LANGUAGE_CODE \in LanguageCodes THEN setCurrentCode(w, DEFAULT_LANGUAGE_CODE)
    ELSE w

\* _start_validator
start_validator(w, validator) ==
    LET cur == w.app.key_validator
        asked == IF cur # 0 /\ isRunning(w.validators[cur])
                 THEN [w EXCEPT !.validators[cur].interrupted = TRUE]
                 ELSE w
        id == w.started.validators + 1
    IN [asked EXCEPT !.app.key_validator = id,
                     !.validators = WithThread(@, id, validator),
                     !.started.validators = id]

\* the closure _cleanup of _start_validator, connected to QThread.finished
\* a _cleanup that would clear the reference whichever validator has finished
validator_cleanup_clearing_always(w, id) == [w EXCEPT !.app.key_validator = 0]

validator_cleanup(w, id) ==
    IF w.app.key_validator = id THEN [w EXCEPT !.app.key_validator = 0] ELSE w

\* _init_services
init_services(w) ==
    IF Truthy(w.app.api_key)
    THEN start_validator(set_app_status(w, <<"Validating stored API key...">>),
                         KeyValidator_init(w.app.api_key, w.app.settings.model_name,
                                           "startup", 0, NoPayload))
    ELSE [set_app_status(w, <<"API key required. Open settings to continue.">>)
             EXCEPT !.timers.settings = TRUE]

\* GeminiService.__init__ inside _activate_service: the outcome of the constructor
GeminiService_init(api_key, model_name) ==
    IF configure_client_raises(api_key)
    THEN [kind |-> "raise", exc |-> [cls |-> "GeminiAPIError", msg |-> <<"API key is empty.">>]]
    ELSE [kind |-> "ok", service |-> [api_key |-> api_key, model_name |-> model_name]]

\* an _activate_service that would store the client and the model but not the key
activate_service_keeping_key(w0, api_key, model_name) ==
    LET w == Called(w0, "GeminiService", [api_key |-> api_key, model_name |-> model_name])
        made == GeminiService_init(api_key, model_name)
    IN IF made.kind = "raise"
       THEN [ok |-> FALSE,
             w |-> set_app_status([w EXCEPT !.app.gemini_service = None],
                                  Warning(made.exc.msg))]
       ELSE [ok |-> TRUE,
             w |-> [w EXCEPT !.app.gemini_service = Some(made.service),
                             !.app.settings.model_name = model_name]]

\* _activate_service: the new state and the returned flag
activate_service(w0, api_key, model_name) ==
    LET w == Called(w0, "GeminiService", [api_key |-> api_key, model_name |-> model_name])
        made == GeminiService_init(api_key, model_name)
    IN IF made.kind = "raise"
       THEN [ok |-> FALSE,
             w |-> set_app_status([w EXCEPT !.app.gemini_service = None],
                                  Warning(made.exc.msg))]
       ELSE [ok |-> TRUE,
             w |-> [w EXCEPT !.app.gemini_service = Some(made.service),
                             !.app.api_key = api_key,
                             !.app.settings.model_name = model_name]]

\* _on_startup_key_validated
on_startup_key_validated(w, api_key) ==
    LET r == activate_service(w, api_key, w.app.settings.model_name)
    IN IF r.ok THEN set_app_status(r.w, <<"Ready.">>) ELSE r.w

\* open_settings up to dialog.exec()
open_settings(w, require_key) ==
    Push(w, SettingsDialog_init(Min(FreeIds(DialogIdsInUse(w), Len(w.stack) + MaxValidators + 1)),
                                w.app.api_key, require_key))

\* _on_startup_key_failed up to QMessageBox.warning
on_startup_key_failed(w, message) ==
    Push(set_app_status(w, Warning(message)),
         Msg("warning", "API Key Required", "open_settings"))

\* save_config: config.settings is the object self.settings
save_config(w) ==
    LET config == [api_key |-> w.app.config_api_key, settings |-> w.app.settings]
    IN Called([w EXCEPT !.disk = Some(config)], "save_config", config)

\* an _apply_settings without the return after its error box
apply_settings_not_aborting(w, settings) ==
    LET needed == \/ settings.api_key # w.app.api_key
                  \/ settings.model_name # w.app.settings.model_name
                  \/ IsNone(w.app.gemini_service)
        r == IF needed THEN activate_service(w, settings.api_key, settings.model_name)
             ELSE [ok |-> TRUE, w |-> w]
        a == [r.w EXCEPT !.app.settings.default_language = settings.default_language,
                         !.app.settings.model_name = settings.model_name]
        b == set_language_selection(a, settings.default_language)
        c == set_app_status(save_config([b EXCEPT !.app.config_api_key = settings.api_key]),
                            <<"Settings saved.">>)
    IN IF ~r.ok THEN Push(c, Msg("critical", "Gemini Error", "none")) ELSE c

\* an _apply_settings that would not activate a client just because none is active
apply_settings_ignoring_missing_client(w, settings) ==
    LET needed == \/ settings.api_key # w.app.api_key
                  \/ settings.model_name # w.app.settings.model_name
        r == IF needed THEN activate_service(w, settings.api_key, settings.model_name)
             ELSE [ok |-> TRUE, w |-> w]
        a == [r.w EXCEPT !.app.settings.default_language = settings.default_language,
                         !.app.settings.model_name = settings.model_name]
        b == set_language_selection(a, settings.default_language)
        c == save_config([b EXCEPT !.app.config_api_key = settings.api_key])
    IN IF ~r.ok THEN Push(r.w, Msg("critical", "Gemini Error", "none"))
       ELSE set_app_status(c, <<"Settings saved.">>)

\* _apply_settings
apply_settings(w, settings) ==
    LET needed == \/ settings.api_key # w.app.api_key
                  \/ settings.model_name # w.app.settings.model_name
                  \/ IsNone(w.app.gemini_service)
        r == IF needed THEN activate_service(w, settings.api_key, settings.model_name)
             ELSE [ok |-> TRUE, w |-> w]
        a == [r.w EXCEPT !.app.settings.default_language = settings.default_language,
                         !.app.settings.model_name = settings.model_name]
        b == set_language_selection(a, settings.default_language)
        c == save_config([b EXCEPT !.app.config_api_key = settings.api_key])
    IN IF ~r.ok THEN Push(r.w, Msg("critical", "Gemini Error", "none"))
       ELSE set_app_status(c, <<"Settings saved.">>)

\* an open_settings that would close after every unaccepted required-key dialog
open_settings_return_closing_always(w, frame) ==
    IF frame.result = "accepted" /\ ~IsNone(frame.final_settings)
    THEN apply_settings(w, Val(frame.final_settings))
    ELSE IF frame.require_key
    THEN Push(w, Msg("critical", "API Key Required", "close"))
    ELSE w

\* open_settings after dialog.exec() has returned for `frame`
open_settings_return(w, frame) ==
    IF frame.result = "accepted" /\ ~IsNone(frame.final_settings)
    THEN apply_settings(w, Val(frame.final_settings))
    ELSE IF frame.require_key /\ (IsNone(w.app.gemini_service) \/ ~Truthy(w.app.api_key))
    THEN Push(w, Msg("critical", "API Key Required", "close"))
    ELSE w

\* the frame of dialog `id`, 0 when the dialog is no longer open
FrameOf(w, id) ==
    LET at == {i \in 1..Len(w.stack) : w.stack[i].k = "dlg" /\ w.stack[i].id = id}
    IN IF at = {} THEN 0 ELSE Min(at)

\* _on_settings_validation_success with SettingsDialog.mark_validation_success
on_settings_validation_success(w, dialog, settings) ==
    LET i == FrameOf(w, dialog)
        marked == IF i = 0 THEN w
                  ELSE [w EXCEPT !.stack[i].final_settings = Some(settings),
                                 !.stack[i].status = <<DONE, " ", "API key validated.">>,
                                 !.stack[i].result = "accepted"]
    IN set_app_status(marked, <<"API key validated.">>)

\* _on_settings_validation_failure with SettingsDialog.mark_validation_failure
on_settings_validation_failure(w, dialog, message) ==
    LET i == FrameOf(w, dialog)
        marked == IF i = 0 THEN w
                  ELSE [w EXCEPT !.stack[i].busy = FALSE,
                                 !.stack[i].status = Warning(message)]
    IN set_app_status(marked, Warning(message))

\* a _handle_settings_validation that would validate against the stored model
handle_settings_validation_stored_model(w, dialog, settings) ==
    start_validator(w, KeyValidator_init(settings.api_key, w.app.settings.model_name,
                                         "settings", dialog, settings))

\* _handle_settings_validation
handle_settings_validation(w, dialog, settings) ==
    start_validator(w, KeyValidator_init(settings.api_key, settings.model_name,
                                         "settings", dialog, settings))

\* SettingsDialog.get_settings on what the user entered
get_settings(entry) ==
    [api_key |-> strip(entry.api_key),
     default_language |-> entry.default_language,
     model_name |-> entry.model_name]

\* an _on_save_clicked that would leave its inputs enabled while the key is validated
on_save_clicked_staying_enabled(w, entry) ==
    LET n == Len(w.stack)
        settings == get_settings(entry)
        human_label == LANGUAGE_LABEL_BY_CODE(settings.default_language)
        model_label == MODEL_LABEL_BY_NAME(settings.model_name)
        validating == IF ~IsNone(human_label)
                      THEN <<"Validating API key for ", Val(human_label),
                             " translations on ", model_label, "...">>
                      ELSE <<"Validating API key on ", model_label, "...">>
    IN IF ~Truthy(settings.api_key)
       THEN Push(w, Msg("warning", "Missing API Key", "none"))
       ELSE IF settings.api_key = w.stack[n].initial_api_key
       THEN [w EXCEPT !.stack[n].status = <<>>,
                      !.stack[n].final_settings = Some(settings),
                      !.stack[n].result = "accepted"]
       ELSE handle_settings_validation(
                [w EXCEPT !.stack[n].status = validating],
                w.stack[n].id, settings)

\* an _on_save_clicked that would validate again when only the model was changed
on_save_clicked_revalidating_model(w, entry) ==
    LET n == Len(w.stack)
        settings == get_settings(entry)
        human_label == LANGUAGE_LABEL_BY_CODE(settings.default_language)
        model_label == MODEL_LABEL_BY_NAME(settings.model_name)
        validating == IF ~IsNone(human_label)
                      THEN <<"Validating API key for ", Val(human_label),
                             " translations on ", model_label, "...">>
                      ELSE <<"Validating API key on ", model_label, "...">>
    IN IF ~Truthy(settings.api_key)
       THEN Push(w, Msg("warning", "Missing API Key", "none"))
       ELSE IF /\ settings.api_key = w.stack[n].initial_api_key
               /\ settings.model_name = w.app.settings.model_name
       THEN [w EXCEPT !.stack[n].status = <<>>,
                      !.stack[n].final_settings = Some(settings),
                      !.stack[n].result = "accepted"]
       ELSE handle_settings_validation(
                [w EXCEPT !.stack[n].status = validating,
                          !.stack[n].busy = TRUE],
                w.stack[n].id, settings)

\* SettingsDialog._on_save_clicked of the innermost dialog
on_save_clicked(w, entry) ==
    LET n == Len(w.stack)
        settings == get_settings(entry)
        human_label == LANGUAGE_LABEL_BY_CODE(settings.default_language)
        model_label == MODEL_LABEL_BY_NAME(settings.model_name)
        validating == IF ~IsNone(human_label)
                      THEN <<"Validating API key for ", Val(human_label),
                             " translations on ", model_label, "...">>
                      ELSE <<"Validating API key on ", model_label, "...">>
    IN IF ~Truthy(settings.api_key)
       THEN Push(w, Msg("warning", "Missing API Key", "none"))
       ELSE IF settings.api_key = w.stack[n].initial_api_key
       THEN [w EXCEPT !.stack[n].status = <<>>,
                      !.stack[n].final_settings = Some(settings),
                      !.stack[n].result = "accepted"]
       ELSE handle_settings_validation(
                [w EXCEPT !.stack[n].status = validating,
                          !.stack[n].busy = TRUE],
                w.stack[n].id, settings)


\* _build_prompt
build_prompt(w, text) ==
    IF w.app.mode = "fix" THEN build_grammar_prompt(text)
    ELSE build_translation_prompt(text, from_code(w.lang_combo.code))

\* a reset_copy_btn that would enable the button whatever the output
reset_copy_btn_enabling(w) ==
    [w EXCEPT !.ui = reset_copy_button(@, TRUE)]

\* reset_copy_btn
reset_copy_btn(w) ==
    [w EXCEPT !.ui = reset_copy_button(@, Truthy(strip(w.output)))]

\* an on_submit without its running-worker guard
WorkerBusy_never(w) == FALSE

\* the guard of on_submit: self.worker and self.worker.isRunning()
WorkerBusy(w) == w.app.worker # 0 /\ isRunning(w.workers[w.app.worker])

\* an on_submit that would leave the output of the previous request in place
on_submit_keeping_output(w, typed) ==
    LET w0 == [w EXCEPT !.app.last_error_message = None]
        text == strip(typed)
        id == w.started.workers + 1
        worker == StreamWorker_init(Val(w.app.gemini_service), build_prompt(w0, text))
    IN IF IsNone(w.app.gemini_service)
       THEN Push(w0, Msg("warning", "Gemini Unavailable", "open_settings"))
       ELSE IF WorkerBusy(w0)
       THEN Push(w0, Msg("information", "Processing", "none"))
       ELSE IF ~Truthy(text)
       THEN reset_copy_btn([w0 EXCEPT !.output = Warning(<<"No input text.">>)])
       ELSE [w0 EXCEPT !.ui = set_status(start_processing(@), <<"Working with Gemini...">>),
                       !.app.worker = id,
                       !.workers = WithThread(@, id, worker),
                       !.started.workers = id]

\* on_submit with `typed` in input_edit
on_submit(w, typed) ==
    LET w0 == [w EXCEPT !.app.last_error_message = None]
        text == strip(typed)
        id == w.started.workers + 1
        worker == StreamWorker_init(Val(w.app.gemini_service), build_prompt(w0, text))
    IN IF IsNone(w.app.gemini_service)
       THEN Push(w0, Msg("warning", "Gemini Unavailable", "open_settings"))
       ELSE IF WorkerBusy(w0)
       THEN Push(w0, Msg("information", "Processing", "none"))
       ELSE IF ~Truthy(text)
       THEN reset_copy_btn([w0 EXCEPT !.output = Warning(<<"No input text.">>)])
       ELSE [w0 EXCEPT !.ui = set_status(start_processing(@), <<"Working with Gemini...">>),
                       !.output = <<>>,
                       !.app.worker = id,
                       !.workers = WithThread(@, id, worker),
                       !.started.workers = id]

\* whether on_submit would go on to create a worker
SubmitCreatesWorker(w, typed) ==
    /\ ~IsNone(w.app.gemini_service)
    /\ ~WorkerBusy(w)
    /\ Truthy(strip(typed))

\* an update_output that would insert at the start of the document
update_output_at_start(w, text) ==
    LET first_chunk == ~Truthy(w.output)
        s == IF first_chunk THEN set_app_status(w, <<"Streaming response...">>) ELSE w
    IN [s EXCEPT !.output = text \o @]

\* update_output
update_output(w, text) ==
    LET first_chunk == ~Truthy(w.output)
        s == IF first_chunk THEN set_app_status(w, <<"Streaming response...">>) ELSE w
    IN [s EXCEPT !.output = @ \o text]

\* QTextEdit.append: a new paragraph holding the text
QTextEdit_append(old, text) == IF old = <<>> THEN text ELSE old \o <<"\n">> \o text

\* on_worker_error up to QMessageBox.critical
\* an on_worker_error that would put the buttons back as soon as the error arrives
on_worker_error_setting_ready(w, message) ==
    LET a == [w EXCEPT !.app.last_error_message = Some(message),
                       !.ui = set_ready(@, Warning(message), TRUE)]
        b == IF ~Truthy(strip(w.output))
             THEN [a EXCEPT !.output = Warning(message)]
             ELSE [a EXCEPT !.output = QTextEdit_append(@, <<"\n">> \o Warning(message))]
    IN Push(b, Msg("critical", "Gemini Error", "none"))

on_worker_error(w, message) ==
    LET a == set_app_status([w EXCEPT !.app.last_error_message = Some(message)],
                            Warning(message))
        b == IF ~Truthy(strip(w.output))
             THEN [a EXCEPT !.output = Warning(message)]
             ELSE [a EXCEPT !.output = QTextEdit_append(@, <<"\n">> \o Warning(message))]
    IN Push(b, Msg("critical", "Gemini Error", "none"))

\* the truth value of self._last_error_message: None and "" are both falsy
HasErrorMessage(w) ==
    ~IsNone(w.app.last_error_message) /\ Truthy(Val(w.app.last_error_message))

\* on_finished
on_finished(w) ==
    LET cur == w.app.worker
        released == IF cur # 0
                    THEN [w EXCEPT !.workers[cur].deleted = TRUE, !.app.worker = 0]
                    ELSE w
        has_output == Truthy(strip(w.output))
        status_message ==
            IF HasErrorMessage(w) THEN Warning(Val(w.app.last_error_message))
            ELSE IF has_output THEN <<"Completed.">>
            ELSE <<"No response received.">>
    IN [released EXCEPT !.ui = set_ready(@, status_message, has_output),
                        !.app.last_error_message = None]

\* a copy_output that would not trim the output
copy_output_untrimmed(w) ==
    LET text == w.output
    IN IF Truthy(text)
       THEN [Called(w, "setText", text)
                EXCEPT !.clipboard = Some(text), !.ui = mark_copy_success(@),
                       !.timers.copy = @ + 1]
       ELSE [w EXCEPT !.ui = reset_copy_button(@, FALSE)]

\* copy_output
copy_output(w) ==
    LET text == strip(w.output)
    IN IF Truthy(text)
       THEN [Called(w, "setText", text)
                EXCEPT !.clipboard = Some(text), !.ui = mark_copy_success(@),
                       !.timers.copy = @ + 1]
       ELSE [w EXCEPT !.ui = reset_copy_button(@, FALSE)]

\* clear_all (input_edit is what the user types next: an input of on_submit)
clear_all(w) == [w EXCEPT !.output = <<>>, !.ui = mark_cleared(@)]

\* an on_mode_fix that would let go of the request in flight
on_mode_fix_releasing_worker(w) ==
    set_app_status([w EXCEPT !.app.mode = "fix", !.lang_combo.visible = FALSE,
                             !.app.worker = 0],
                   <<"Grammar mode active.">>)

\* on_mode_fix
on_mode_fix(w) ==
    set_app_status([w EXCEPT !.app.mode = "fix", !.lang_combo.visible = FALSE],
                   <<"Grammar mode active.">>)

\* on_mode_translate
on_mode_translate(w) ==
    set_app_status([w EXCEPT !.app.mode = "translate", !.lang_combo.visible = TRUE],
                   <<"Translate mode to ", from_code(w.lang_combo.code).label, ".">>)

\* a closeEvent that would drop a reference only where it had found the thread running
closeEvent_keeping_stopped(w) ==
    LET cw == w.app.worker
        cv == w.app.key_validator
        a == IF cw # 0 /\ isRunning(w.workers[cw])
             THEN Called([w EXCEPT !.workers[cw].interrupted = TRUE, !.app.worker = 0],
                         "wait", [thread |-> "worker", msecs |-> 1500])
             ELSE w
        b == IF cv # 0 /\ isRunning(a.validators[cv])
             THEN Called([a EXCEPT !.validators[cv].interrupted = TRUE, !.app.key_validator = 0],
                         "wait", [thread |-> "validator", msecs |-> 500])
             ELSE a
    IN [b EXCEPT !.app.closed = TRUE,
                 !.queue = <<>>, !.stack = <<>>,
                 !.timers = [init |-> FALSE, settings |-> FALSE, copy |-> 0]]

\* closeEvent: each wait is bounded, so it returns whether or not the thread stopped;
\* what the thread does during the wait are its steps after this one.  The window is
\* the application's last one: its event loop ends, nothing queued is delivered.
closeEvent(w) ==
    LET cw == w.app.worker
        cv == w.app.key_validator
        a == IF cw # 0 /\ isRunning(w.workers[cw])
             THEN Called([w EXCEPT !.workers[cw].interrupted = TRUE],
                         "wait", [thread |-> "worker", msecs |-> 1500])
             ELSE w
        b == IF cv # 0 /\ isRunning(a.validators[cv])
             THEN Called([a EXCEPT !.validators[cv].interrupted = TRUE],
                         "wait", [thread |-> "validator", msecs |-> 500])
             ELSE a
    IN [b EXCEPT !.app.worker = 0, !.app.key_validator = 0, !.app.closed = TRUE,
                 !.queue = <<>>, !.stack = <<>>,
                 !.timers = [init |-> FALSE, settings |-> FALSE, copy |-> 0]]

\* open_settings(require_key=True) called by the handler that had shown `frame`:
\* the dialog's exec() returns into that handler
open_settings_from(w, frame) ==
    LET opened == open_settings(w, TRUE)
    IN [opened EXCEPT !.stack[Len(opened.stack)].caller = frame.title]

\* handlers that would return as soon as their message box is dismissed
after_message_returning(w, frame) ==
    IF frame.then = "close" THEN closeEvent(w) ELSE w

\* what the handler that opened a message box does once the box is dismissed
after_message(w, frame) ==
    CASE frame.then = "open_settings" -> open_settings_from(w, frame)
      [] frame.then = "close" -> closeEvent(w)
      [] OTHER -> w

\* the slot a queued signal is connected to
dispatch(w, e) ==
    CASE e.kind = "worker" /\ e.sig = "partial" -> update_output(w, e.arg)
      [] e.kind = "worker" /\ e.sig = "error" -> on_worker_error(w, e.arg)
      [] e.kind = "worker" /\ e.sig = "finished" -> on_finished(w)
      [] e.kind = "validator" /\ e.sig = "finished" -> validator_cleanup(w, e.id)
      [] e.kind = "validator" /\ e.sig = "success" /\ e.slot = "startup" ->
             on_startup_key_validated(w, e.arg)
      [] e.kind = "validator" /\ e.sig = "failure" /\ e.slot = "startup" ->
             on_startup_key_failed(w, e.arg)
      [] e.kind = "validator" /\ e.sig = "success" /\ e.slot = "settings" ->
             on_settings_validation_success(w, e.dialog, e.payload)
      [] e.kind = "validator" /\ e.sig = "failure" /\ e.slot = "settings" ->
             on_settings_validation_failure(w, e.dialog, e.arg)

\* a thread object is gone once its thread has stopped, nothing it emitted is still
\* queued and the window no longer refers to it
Collect(w) ==
    LET queued(kind) == {w.queue[i].id : i \in {j \in 1..Len(w.queue) : w.queue[j].kind = kind}}
        keepW == {i \in DOMAIN w.workers :
                     w.workers[i].pc # "stopped" \/ i \in queued("worker") \/ i = w.app.worker}
        keepV == {i \in DOMAIN w.validators :
                     w.validators[i].pc # "stopped" \/ i \in queued("validator")
                         \/ i = w.app.key_validator}
    IN [w EXCEPT !.workers = [i \in keepW |-> @[i]],
                 !.validators = [i \in keepV |-> @[i]]]

Commit(w0) ==
    LET w == Collect(w0)
    IN /\ app' = w.app
       /\ ui' = w.ui
       /\ output' = w.output
       /\ lang_combo' = w.lang_combo
       /\ clipboard' = w.clipboard
       /\ disk' = w.disk
       /\ timers' = w.timers
       /\ stack' = w.stack
       /\ queue' = w.queue
       /\ workers' = w.workers
       /\ validators' = w.validators
       /\ started' = w.started
       /\ calls' = w.calls
       /\ UNCHANGED direct

---------------------------------------------------------------------------
(* Initial state: TextHelperApp.__init__ has run on a loaded configuration, *)
(* _init_services is pending on its zero timer.                            *)

\* configurations load_config can return
InitConfigs ==
    {[api_key |-> <<>>, default_language |-> "cs", model_name |-> DEFAULT_MODEL_NAME],
     [api_key |-> <<" ", "k">>, default_language |-> "xx", model_name |-> MODEL_OPTIONS[2].name]}

\* what the user has entered in the settings dialog when pressing Save
DialogEntries ==
    {[api_key |-> <<>>, default_language |-> "en", model_name |-> DEFAULT_MODEL_NAME],
     [api_key |-> <<"k", " ">>, default_language |-> "en", model_name |-> DEFAULT_MODEL_NAME],
     [api_key |-> <<"j">>, default_language |-> "cs", model_name |-> MODEL_OPTIONS[2].name]}

\* arguments of the methods called directly
CallKeys == {<<>>, <<"k">>, <<"j">>}
ModelNames == {MODEL_OPTIONS[i].name : i \in 1..Len(MODEL_OPTIONS)}
CallSettings ==
    {[api_key |-> key, default_language |-> "cs", model_name |-> MODEL_OPTIONS[2].name] :
        key \in CallKeys}
        \cup {[api_key |-> <<>>, default_language |-> "en", model_name |-> DEFAULT_MODEL_NAME]}

InitWorld(config) ==
    LET w == [app |-> [api_key |-> strip(config.api_key),
                       gemini_service |-> None,
                       worker |-> 0,
                       key_validator |-> 0,
                       mode |-> "fix",
                       last_error_message |-> None,
                       settings |-> [default_language |-> config.default_language,
                                     model_name |-> config.model_name],
                       config_api_key |-> config.api_key,
                       closed |-> FALSE],
              ui |-> [submit_text |-> SUBMIT_DEFAULT_TEXT, submit_enabled |-> TRUE,
                      clear_enabled |-> TRUE, copy_text |-> COPY_DEFAULT_TEXT,
                      copy_enabled |-> TRUE, status |-> <<>>],
              output |-> <<>>,
              lang_combo |-> [code |-> Language[1].code, visible |-> FALSE],
              clipboard |-> None,
              disk |-> None,
              timers |-> [init |-> TRUE, settings |-> FALSE, copy |-> 0],
              stack |-> <<>>,
              queue |-> <<>>,
              workers |-> <<>>,
              validators |-> <<>>,
              started |-> [workers |-> 0, validators |-> 0]]
        \* _apply_user_settings
        lang == IF config.default_language = "" THEN DEFAULT_LANGUAGE_CODE
                ELSE config.default_language
        sel == set_language_selection(w, lang)
    IN [sel EXCEPT !.ui = set_ready(@, <<"Ready.">>, FALSE)]

\* configurations with a stored key and each of the languages as the default one
LanguageConfigs ==
    {[api_key |-> <<"k">>, default_language |-> code, model_name |-> DEFAULT_MODEL_NAME] :
        code \in LanguageCodes}

\* the window after construction on one of `configs`, with the methods that are also
\* called directly
InitFrom(configs, methods) ==
    /\ \E config \in configs :
          LET w == InitWorld(config)
          IN /\ app = w.app /\ ui = w.ui /\ output = w.output
             /\ lang_combo = w.lang_combo /\ clipboard = w.clipboard /\ disk = w.disk
             /\ timers = w.timers /\ stack = w.stack /\ queue = w.queue
             /\ workers = w.workers /\ validators = w.validators /\ started = w.started
    /\ calls = <<>>
    /\ direct = methods

\* the window after construction, with the methods that are also called directly
InitWith(methods) == InitFrom(InitConfigs, methods)

Init == InitWith({})

InitLanguages == InitFrom(LanguageConfigs, {})

InitSelection == InitFrom(LanguageConfigs, {"_set_language_selection"})

InitDirect == InitWith({"on_submit"})

InitMethods == InitWith({"_activate_service", "_apply_settings"})

InitCopy == InitWith({"copy_output"})

InitStandIn == InitWith({"open_settings"})

---------------------------------------------------------------------------
(* Steps of the threads *)

QEv(kind, id, e, v) ==
    [kind |-> kind, id |-> id, sig |-> e.sig, arg |-> e.arg,
     slot |-> v.slot, dialog |-> v.dialog, payload |-> v.payload]

WorkerMeta == [slot |-> "", dialog |-> 0, payload |-> NoPayload]

\* the signals a thread emitted in a step, as queued deliveries; none once the
\* application's event loop has ended
Posted(kind, id, before, after, meta) ==
    IF app.closed THEN <<>>
    ELSE [i \in 1..(Len(after) - Len(before)) |-> QEv(kind, id, after[Len(before) + i], meta)]

\* a run() that would write the fragment into the output itself instead of emitting it
WorkerChunk_writing_output(id) ==
    /\ id \in DOMAIN workers /\ workers[id].pc = "iter"
    /\ Len(workers[id].yielded) < MaxChunks
    /\ \E c \in RawChunks :
          /\ stream_prompt_yields(c)
          /\ LET t == [workers[id] EXCEPT !.yielded = Append(@, c)]
                 t2 == StreamWorker_run(t, [kind |-> "chunk", text |-> c])
             IN Commit(update_output([World EXCEPT !.workers[id] = t2], c))

\* the stream yields a fragment and run() forwards it
WorkerChunk(id) ==
    /\ id \in DOMAIN workers /\ workers[id].pc = "iter"
    /\ Len(workers[id].yielded) < MaxChunks
    /\ \E c \in RawChunks :
          /\ stream_prompt_yields(c)
          /\ LET t == [workers[id] EXCEPT !.yielded = Append(@, c)]
                 t2 == StreamWorker_run(t, [kind |-> "chunk", text |-> c])
             IN Commit([World EXCEPT !.workers[id] = t2,
                                     !.queue = @ \o Posted("worker", id, t.events, t2.events, WorkerMeta)])

\* the stream raises
WorkerRaise(id) ==
    /\ id \in DOMAIN workers /\ workers[id].pc = "iter"
    /\ \E exc \in StreamErrors :
          LET t == [workers[id] EXCEPT !.raised = Some(exc)]
              t2 == StreamWorker_run(t, [kind |-> "raise", exc |-> exc])
          IN Commit([World EXCEPT !.workers[id] = t2,
                                  !.queue = @ \o Posted("worker", id, t.events, t2.events, WorkerMeta)])

\* the stream ends
WorkerStop(id) ==
    /\ id \in DOMAIN workers /\ workers[id].pc = "iter"
    /\ LET t == workers[id]
           t2 == StreamWorker_run(t, [kind |-> "stop"])
       IN Commit([World EXCEPT !.workers[id] = t2,
                               !.queue = @ \o Posted("worker", id, t.events, t2.events, WorkerMeta)])

\* run() of a validator: the validation call and the signal for its result
ValidatorRun(id) ==
    /\ id \in DOMAIN validators /\ validators[id].pc = "run"
    /\ \E backend \in {[kind |-> "ok"]} \cup {[kind |-> "raise", exc |-> x] : x \in BackendErrors} :
          LET result == validate_api_key(validators[id].api_key, backend)
              v == [validators[id] EXCEPT !.result = Some(result)]
              v2 == KeyValidator_run(v, result)
          IN Commit([World EXCEPT !.validators[id] = v2,
                                  !.queue = @ \o Posted("validator", id, v.events, v2.events, v)])

\* the worker's thread ends; its own `finished` signal hides QThread.finished,
\* so nothing is emitted here
WorkerExit(id) ==
    /\ id \in DOMAIN workers /\ workers[id].pc = "returning"
    /\ Commit([World EXCEPT !.workers[id] = QThread_exit(@)])

\* the validator's thread ends and QThread.finished is emitted
ValidatorExit(id) ==
    /\ id \in DOMAIN validators /\ validators[id].pc = "returning"
    /\ LET v == validators[id]
           v2 == [QThread_exit(v) EXCEPT !.events = Append(@, Ev("finished", <<>>))]
       IN Commit([World EXCEPT !.validators[id] = v2,
                               !.queue = @ \o Posted("validator", id, v.events, v2.events, v)])

---------------------------------------------------------------------------
(* Steps of the interactive thread *)

Running == ~app.closed /\ ~timers.init

\* a handler of the main window runs through its widget, which must be enabled and
\* not behind a modal window
MainWindow(enabled) == Running /\ stack = <<>> /\ enabled

\* on_submit runs: through the submit button or, where the model says so, called as
\* a method while the button is disabled and the window's worker is running
SubmitCallable ==
    \/ MainWindow(ui.submit_enabled)
    \/ /\ "on_submit" \in direct /\ MainWindow(TRUE)
       /\ app.worker # 0 /\ isRunning(workers[app.worker])

InitServices ==
    /\ timers.init /\ ~app.closed
    /\ Commit(init_services([World EXCEPT !.timers.init = FALSE]))

SettingsTimer ==
    /\ Running /\ timers.settings
    /\ Commit(open_settings([World EXCEPT !.timers.settings = FALSE], TRUE))

CopyTimer ==
    /\ Running /\ timers.copy > 0
    /\ Commit(reset_copy_btn([World EXCEPT !.timers.copy = @ - 1]))

Deliver ==
    /\ Running /\ queue # <<>>
    /\ Commit(dispatch([World EXCEPT !.queue = Tail(@)], Head(queue)))

Submit ==
    /\ SubmitCallable
    /\ \E typed \in Inputs :
          /\ SubmitCreatesWorker(World, typed) => started.workers < MaxWorkers
          /\ Commit(on_submit(World, typed))

\* what the user types into input_edit, with a text of several words in whitespace
Texts == Inputs \cup {<<" ", "x", " ", "y", "\n">>}

\* the submit button with any of the texts in input_edit
SubmitText ==
    /\ SubmitCallable
    /\ \E typed \in Texts :
          /\ SubmitCreatesWorker(World, typed) => started.workers < MaxWorkers
          /\ Commit(on_submit(World, typed))

Clear == MainWindow(ui.clear_enabled) /\ Commit(clear_all(World))

\* copy_output runs: through the copy button or, where the model says so, called as
\* a method whatever the button's state
CopyCallable ==
    \/ MainWindow(ui.copy_enabled)
    \/ "copy_output" \in direct /\ MainWindow(TRUE)

Copy ==
    /\ CopyCallable
    /\ Truthy(strip(output)) => timers.copy < MaxCopyTimers
    /\ Commit(copy_output(World))

SettingsClicked == MainWindow(TRUE) /\ Commit(open_settings(World, FALSE))

ModeFix == MainWindow(TRUE) /\ Commit(on_mode_fix(World))

ModeTranslate == MainWindow(TRUE) /\ Commit(on_mode_translate(World))

SelectLanguage ==
    /\ MainWindow(lang_combo.visible)
    /\ \E code \in LangChoices : code # lang_combo.code /\ Commit(setCurrentCode(World, code))

CloseWindow == MainWindow(TRUE) /\ Commit(closeEvent(World))

\* _activate_service called as a method
ActivateCall ==
    /\ "_activate_service" \in direct /\ MainWindow(TRUE)
    /\ \E api_key \in CallKeys, model_name \in ModelNames :
          Commit(activate_service(World, api_key, model_name).w)

\* _apply_settings called as a method
ApplyCall ==
    /\ "_apply_settings" \in direct /\ MainWindow(TRUE)
    /\ \E settings \in CallSettings : Commit(apply_settings(World, settings))

\* language codes _set_language_selection is called with: unknown, empty, a supported
\* code in upper case, a supported code
CallCodes == {"xx", "", "CS", "cs"}

\* _set_language_selection called as a method
SetLanguageCall ==
    /\ "_set_language_selection" \in direct /\ MainWindow(TRUE)
    /\ \E code \in CallCodes : Commit(set_language_selection(World, code))

\* what a stand-in for SettingsDialog hands back from exec(): rejected, or accepted
\* with final settings of any key
StandInOutcomes ==
    {[result |-> "rejected", final_settings |-> None]}
        \cup {[result |-> "accepted", final_settings |-> Some(settings)] :
                 settings \in CallSettings}

\* the stand-in dialog after its exec() has returned
StandInFrame(w, require_key, outcome) ==
    [SettingsDialog_init(0, w.app.api_key, require_key)
        EXCEPT !.result = outcome.result, !.final_settings = outcome.final_settings]

\* open_settings called as a method with SettingsDialog replaced by a stand-in whose
\* exec() returns at once
OpenSettingsCall ==
    /\ "open_settings" \in direct /\ MainWindow(TRUE)
    /\ \E require_key \in BOOLEAN, outcome \in StandInOutcomes :
          Commit(open_settings_return(World, StandInFrame(World, require_key, outcome)))

TopIs(k) == stack # <<>> /\ stack[Len(stack)].k = k

DialogSave ==
    /\ Running /\ TopIs("dlg")
    /\ stack[Len(stack)].result = "open" /\ ~stack[Len(stack)].busy
    /\ \E entry \in DialogEntries :
          /\ LET key == get_settings(entry).api_key
             IN (Truthy(key) /\ key # stack[Len(stack)].initial_api_key)
                    => started.validators < MaxValidators
          /\ Commit(on_save_clicked(World, entry))

\* Cancel, Escape or the window's close button: QDialog.reject
DialogReject ==
    /\ Running /\ TopIs("dlg") /\ stack[Len(stack)].result = "open"
    /\ Commit([World EXCEPT !.stack[Len(stack)].result = "rejected"])

\* dialog.exec() returns to open_settings
DialogReturn ==
    /\ Running /\ TopIs("dlg") /\ stack[Len(stack)].result # "open"
    /\ Commit(open_settings_return(Pop(World), stack[Len(stack)]))

\* the user dismisses a message box; the handler that opened it goes on
MsgDismiss ==
    /\ Running /\ TopIs("msg")
    /\ Commit(after_message(Pop(World), stack[Len(stack)]))

Threads ==
    \/ \E id \in 1..MaxWorkers : WorkerChunk(id)
    \/ \E id \in 1..MaxWorkers : WorkerRaise(id)
    \/ \E id \in 1..MaxWorkers : WorkerStop(id)
    \/ \E id \in 1..MaxWorkers : WorkerExit(id)
    \/ \E id \in 1..MaxValidators : ValidatorRun(id)
    \/ \E id \in 1..MaxValidators : ValidatorExit(id)

Next ==
    \/ InitServices
    \/ SettingsTimer
    \/ CopyTimer
    \/ Deliver
    \/ Submit
    \/ SubmitText
    \/ Clear
    \/ Copy
    \/ SettingsClicked
    \/ ModeFix
    \/ ModeTranslate
    \/ SelectLanguage
    \/ CloseWindow
    \/ ActivateCall
    \/ ApplyCall
    \/ SetLanguageCall
    \/ OpenSettingsCall
    \/ DialogSave
    \/ DialogReject
    \/ DialogReturn
    \/ MsgDismiss
    \/ Threads



\* the key flow, with open_settings also called over a stand-in dialog
StandInNext ==
    \/ InitServices
    \/ SettingsTimer
    \/ Deliver
    \/ OpenSettingsCall
    \/ DialogSave
    \/ DialogReject
    \/ DialogReturn
    \/ MsgDismiss
    \/ \E id \in 1..MaxValidators : ValidatorRun(id)
    \/ \E id \in 1..MaxValidators : ValidatorExit(id)

\* The window's flows are explored one at a time.  They share the client
\* reference, the status label and the stack of modal windows; the threads of one
\* flow never read what the other writes.

\* the request flow: startup, submissions and their streams, shutdown
RequestNext ==
    \/ InitServices
    \/ SettingsTimer
    \/ Deliver
    \/ Submit
    \/ CloseWindow
    \/ DialogReject
    \/ DialogReturn
    \/ MsgDismiss
    \/ Threads

\* the key flow: startup validation, the settings dialog, shutdown
SettingsNext ==
    \/ InitServices
    \/ SettingsTimer
    \/ Deliver
    \/ SettingsClicked
    \/ CloseWindow
    \/ DialogSave
    \/ DialogReject
    \/ DialogReturn
    \/ MsgDismiss
    \/ \E id \in 1..MaxValidators : ValidatorRun(id)
    \/ \E id \in 1..MaxValidators : ValidatorExit(id)

\* the key flow with _activate_service and _apply_settings also called as methods
MethodsNext ==
    \/ InitServices
    \/ SettingsTimer
    \/ Deliver
    \/ ActivateCall
    \/ ApplyCall
    \/ DialogReject
    \/ DialogReturn
    \/ MsgDismiss
    \/ \E id \in 1..MaxValidators : ValidatorRun(id)
    \/ \E id \in 1..MaxValidators : ValidatorExit(id)

\* the copy flow: requests whose streams do not fail, the copy and clear buttons and
\* the timed reset of the copy button
CopyNext ==
    \/ InitServices
    \/ SettingsTimer
    \/ CopyTimer
    \/ Deliver
    \/ Submit
    \/ Clear
    \/ Copy
    \/ DialogReject
    \/ DialogReturn
    \/ MsgDismiss
    \/ \E id \in 1..MaxWorkers : WorkerChunk(id)
    \/ \E id \in 1..MaxWorkers : WorkerStop(id)
    \/ \E id \in 1..MaxWorkers : WorkerExit(id)
    \/ \E id \in 1..MaxValidators : ValidatorRun(id)
    \/ \E id \in 1..MaxValidators : ValidatorExit(id)

\* the request flow with the mode buttons: requests whose streams do not fail
ModeNext ==
    \/ InitServices
    \/ SettingsTimer
    \/ Deliver
    \/ Submit
    \/ ModeFix
    \/ ModeTranslate
    \/ DialogReject
    \/ DialogReturn
    \/ MsgDismiss
    \/ \E id \in 1..MaxWorkers : WorkerChunk(id)
    \/ \E id \in 1..MaxWorkers : WorkerStop(id)
    \/ \E id \in 1..MaxWorkers : WorkerExit(id)
    \/ \E id \in 1..MaxValidators : ValidatorRun(id)
    \/ \E id \in 1..MaxValidators : ValidatorExit(id)

\* the prompts of the requests: every default language, both modes, streams that end
\* without text
PromptNext ==
    \/ InitServices
    \/ Deliver
    \/ SubmitText
    \/ ModeFix
    \/ ModeTranslate
    \/ DialogReject
    \/ DialogReturn
    \/ MsgDismiss
    \/ \E id \in 1..MaxWorkers : WorkerStop(id)
    \/ \E id \in 1..MaxWorkers : WorkerExit(id)
    \/ \E id \in 1..MaxValidators : ValidatorRun(id)
    \/ \E id \in 1..MaxValidators : ValidatorExit(id)

\* the language selector: every default language, the mode buttons, and
\* _set_language_selection also called as a method
SelectionNext ==
    \/ InitServices
    \/ Deliver
    \/ ModeFix
    \/ ModeTranslate
    \/ SetLanguageCall
    \/ DialogReject
    \/ DialogReturn
    \/ MsgDismiss
    \/ \E id \in 1..MaxValidators : ValidatorRun(id)
    \/ \E id \in 1..MaxValidators : ValidatorExit(id)

\* a client is active and no key validation is under way
ClientReady == validators = <<>> /\ ~IsNone(app.gemini_service)

\* nothing has been submitted, copied, cleared, switched or saved yet
Untouched ==
    /\ started.workers = 0 /\ output = <<>> /\ app.mode = "fix"
    /\ IsNone(clipboard) /\ IsNone(disk)

\* the window as a whole, one request: the user works once a client is active, opens
\* the settings before anything else, and the stream does not fail
WindowNext ==
    \/ InitServices
    \/ SettingsTimer
    \/ CopyTimer
    \/ Deliver
    \/ ClientReady /\ started.workers = 0 /\ Submit
    \/ ClientReady /\ Clear
    \/ ClientReady /\ Copy
    \/ ClientReady /\ Untouched /\ SettingsClicked
    \/ ClientReady /\ ModeFix
    \/ ClientReady /\ ModeTranslate
    \/ ClientReady /\ SelectLanguage
    \/ DialogSave
    \/ DialogReject
    \/ DialogReturn
    \/ MsgDismiss
    \/ \E id \in 1..MaxWorkers : WorkerChunk(id)
    \/ \E id \in 1..MaxWorkers : WorkerStop(id)
    \/ \E id \in 1..MaxWorkers : WorkerExit(id)
    \/ \E id \in 1..MaxValidators : ValidatorRun(id)
    \/ \E id \in 1..MaxValidators : ValidatorExit(id)

\* the whole window driven through its widgets
Spec == Init /\ [][Next]_vars

\* the key flow with open_settings also called as a method over a stand-in dialog
SpecStandIn == InitStandIn /\ [][StandInNext]_vars

\* the window as a whole with one request
SpecWindow == Init /\ [][WindowNext]_vars

\* the language selector, _set_language_selection also called as a method
SpecSelection == InitSelection /\ [][SelectionNext]_vars

\* the prompts of the requests, for every default language
SpecPrompt == InitLanguages /\ [][PromptNext]_vars

\* the request flow with the mode buttons
SpecMode == Init /\ [][ModeNext]_vars

\* the request flow driven through the widgets
SpecRequest == Init /\ [][RequestNext]_vars

\* the request flow once a client is active
LiveNext ==
    \/ InitServices
    \/ Deliver
    \/ ClientReady /\ Submit
    \/ CloseWindow
    \/ MsgDismiss
    \/ Threads

\* the client's stream ends, normally or with an exception
StreamTerminates(id) == WorkerStop(id) \/ WorkerRaise(id)

\* the request flow where every stream terminates and the event loop keeps handling
\* what is queued
SpecRequestLive ==
    /\ Init /\ [][LiveNext]_vars
    /\ WF_vars(Deliver)
    /\ \A id \in 1..MaxWorkers : WF_vars(StreamTerminates(id))

\* the key flow driven through the widgets
SpecSettings == Init /\ [][SettingsNext]_vars

\* the request flow with on_submit also called as a method while a request is in
\* flight
SpecDirect == InitDirect /\ [][RequestNext]_vars

\* the key flow with activation and settings application also called as methods,
\* with any key
SpecMethods == InitMethods /\ [][MethodsNext]_vars

\* the copy flow, copy_output also called as a method while its button is disabled
SpecCopy == InitCopy /\ [][CopyNext]_vars

---------------------------------------------------------------------------
(* Properties of the threads *)

\* the events of a thread that carry one of the signals `sigs`, in emission order
Emitted(events, sigs) == SelectSeq(events, LAMBDA e : e.sig \in sigs)

\* their arguments
Args(events, sigs) ==
    LET sel == Emitted(events, sigs) IN [i \in 1..Len(sel) |-> sel[i].arg]

\* C1: for every stream, run() of a request worker emits one partial per fragment
\* the stream produced, in the order produced (none dropped, none repeated), and
\* exactly one finished, which comes after every partial and error of that worker.
PartialsInOrderFinishedLast ==
    \A id \in DOMAIN workers :
        LET t == workers[id]
            n == Len(t.events)
        IN /\ Args(t.events, {"partial"}) = t.yielded
           /\ t.pc = "iter" => Emitted(t.events, {"finished"}) = <<>>
           /\ t.pc # "iter" => /\ Len(Emitted(t.events, {"finished"})) = 1
                               /\ t.events[n].sig = "finished"

\* C1 happens: a stream produced two different fragments, then failed, and run() is over
TwoFragmentsThenOver ==
    \E id \in DOMAIN workers :
        /\ workers[id].pc # "iter"
        /\ Len(workers[id].yielded) >= 2
        /\ workers[id].yielded[1] # workers[id].yielded[2]
        /\ ~IsNone(workers[id].raised)

\* C2: when the stream raises, before the first fragment or after some, the worker
\* emits exactly one error carrying str(exc), no partial after it, and finished
\* exactly once after it; the exception does not leave run().
ErrorOnceThenFinished ==
    \A id \in DOMAIN workers :
        LET t == workers[id]
            n == Len(t.events)
            at == {i \in 1..n : t.events[i].sig = "error"}
        IN ~IsNone(t.raised) =>
              /\ Cardinality(at) = 1
              /\ \A i \in at :
                    /\ t.events[i].arg = Val(t.raised).msg
                    /\ \A j \in (i + 1)..n : t.events[j].sig # "partial"
                    /\ {j \in 1..n : t.events[j].sig = "finished"} = {n}
                    /\ i < n
              /\ ~t.escaped

\* C2 happens: a stream raised after it had produced a fragment
RaisedAfterAFragment ==
    \E id \in DOMAIN workers :
        /\ ~IsNone(workers[id].raised)
        /\ Len(workers[id].yielded) >= 1
        /\ workers[id].raised[1].cls = "RuntimeError"

\* C3: once interruption of a running request worker has been requested, the worker
\* emits no further partial or error.
SilentOnceInterrupted ==
    [][\A id \in DOMAIN workers \cap DOMAIN workers' :
          workers[id].interrupted =>
              Emitted(workers'[id].events, {"partial", "error"})
                  = Emitted(workers[id].events, {"partial", "error"})]_vars

---------------------------------------------------------------------------
(* Properties of the key validation *)

\* C5: in every reachable state at most one request worker thread and at most one
\* key validator thread are running.
AtMostOneOfEachRunning ==
    /\ Cardinality({id \in DOMAIN workers : isRunning(workers[id])}) <= 1
    /\ Cardinality({id \in DOMAIN validators : isRunning(validators[id])}) <= 1

\* C6: the success or failure of a validator that was replaced while it was running
\* is ignored when it arrives: no client is activated, the status is not changed and
\* no dialog or message box is opened or notified.
SupersededResultIgnored ==
    [][(/\ queue # <<>>
        /\ Head(queue).kind = "validator"
        /\ Head(queue).sig \in {"success", "failure"}
        /\ Head(queue).id \in DOMAIN validators
        /\ validators[Head(queue).id].interrupted
        /\ Deliver)
       => /\ app'.gemini_service = app.gemini_service
          /\ app'.api_key = app.api_key
          /\ ui'.status = ui.status
          /\ stack' = stack]_vars

\* C7: a validator's run() makes exactly one validation call, with the trimmed key
\* and the model it was given, and emits exactly one outcome: success carrying the
\* trimmed key if the call returned, failure carrying the message if it raised.
OneCallOneOutcome ==
    \A id \in DOMAIN validators :
        LET v == validators[id]
            outcomes == Emitted(v.events, {"success", "failure"})
            result == Val(v.result)
        IN IF v.pc = "run"
           THEN v.calls = <<>> /\ outcomes = <<>>
           ELSE /\ v.calls = <<[key |-> strip(v.given_key), model_name |-> v.model_name]>>
                /\ Len(outcomes) = 1
                /\ result.kind = "ok" => outcomes[1] = Ev("success", strip(v.given_key))
                /\ result.kind = "raise" =>
                      /\ outcomes[1].sig = "failure"
                      /\ outcomes[1].arg \in {result.exc.msg,
                                              <<"Unexpected error: ">> \o result.exc.msg}

\* C7 happens: a validation call raised and run() is over
ValidationCallRaised ==
    \E id \in DOMAIN validators :
        /\ validators[id].pc # "run"
        /\ Val(validators[id].result).kind = "raise"

---------------------------------------------------------------------------
(* Properties of on_submit and on_finished *)

\* on_submit is called with `typed` in the input field
OnSubmit(typed) == SubmitCallable /\ Commit(on_submit(World, typed))

\* the text is empty once trimmed
Blank(typed) == \A i \in 1..Len(typed) : typed[i] \in Space

\* the window refers to a worker whose thread has not ended
WorkerStillRunning == app.worker # 0 /\ workers[app.worker].pc # "stopped"

\* the innermost modal window
TopFrame == stack[Len(stack)]

NoRequestStarted ==
    /\ workers' = workers
    /\ started' = started
    /\ app'.worker = app.worker

\* C8 as stated: for every input that is empty once trimmed, on_submit starts no
\* worker and the output becomes exactly the 'No input text.' warning, with copy
\* enabled.
BlankSubmitWritesWarning ==
    [][\A typed \in Inputs :
          (Blank(typed) /\ OnSubmit(typed))
          => /\ NoRequestStarted
             /\ output' = Warning(<<"No input text.">>)
             /\ ui'.copy_enabled]_vars

\* C8: for every input that is empty once trimmed, on_submit starts no worker; when
\* a client is active and no worker is running, the output becomes exactly the
\* 'No input text.' warning, with copy enabled.
BlankSubmitWithClientWritesWarning ==
    [][\A typed \in Inputs :
          (Blank(typed) /\ OnSubmit(typed))
          => /\ NoRequestStarted
             /\ (~IsNone(app.gemini_service) /\ ~WorkerStillRunning)
                   => /\ output' = Warning(<<"No input text.">>)
                      /\ ui'.copy_enabled]_vars

\* C8 happens: a blank submission was rejected with a client active
NoInputWarningShown ==
    /\ output = Warning(<<"No input text.">>)
    /\ ui.copy_enabled
    /\ ~IsNone(app.gemini_service)
    /\ app.worker = 0

\* the warning on_submit shows when no client is active
IsUnavailableWarning(frame) ==
    frame.k = "msg" /\ frame.icon = "warning" /\ frame.title = "Gemini Unavailable"

\* on_submit goes on after its warning has been dismissed
UnavailableWarningDismissed ==
    stack # <<>> /\ IsUnavailableWarning(TopFrame) /\ MsgDismiss

\* on_submit with no client: the part of the call up to its warning
SubmitWithoutClientWarns ==
    \A typed \in Inputs :
        (IsNone(app.gemini_service) /\ OnSubmit(typed))
        => /\ NoRequestStarted
           /\ output' = output /\ ui' = ui
           /\ Len(stack') = Len(stack) + 1
           /\ IsUnavailableWarning(stack'[Len(stack')])

\* C9 as stated: with no client active on_submit shows a warning and starts nothing:
\* no worker, output and widgets unchanged, and no other flow is started by the call.
SubmitWithoutClientStartsNothing ==
    [][/\ SubmitWithoutClientWarns
       /\ UnavailableWarningDismissed
             => /\ NoRequestStarted
                /\ output' = output /\ ui' = ui /\ validators' = validators
                /\ stack' = SubSeq(stack, 1, Len(stack) - 1)]_vars

\* C9: with no client active on_submit shows a warning and starts no request: no
\* worker, output and widgets unchanged; once the warning is dismissed the call
\* opens the settings dialog with the key required.
SubmitWithoutClientOpensSettings ==
    [][/\ SubmitWithoutClientWarns
       /\ UnavailableWarningDismissed
             => /\ NoRequestStarted
                /\ output' = output /\ ui' = ui /\ validators' = validators
                /\ Len(stack') = Len(stack)
                /\ stack'[Len(stack')].k = "dlg"
                /\ stack'[Len(stack')].require_key
                /\ stack'[Len(stack')].result = "open"]_vars

\* C9 happens: the settings dialog on_submit opened is on screen
SettingsOpenedBySubmit ==
    /\ stack # <<>>
    /\ TopFrame.k = "dlg"
    /\ TopFrame.caller = "Gemini Unavailable"
    /\ TopFrame.require_key
    /\ IsNone(app.gemini_service)
    /\ workers = <<>>

\* the finished signal of a request worker is handled
FinishedHandled ==
    /\ queue # <<>>
    /\ Head(queue).kind = "worker" /\ Head(queue).sig = "finished"
    /\ Deliver

\* C10: when finished is handled the worker reference is released, submit and clear
\* are enabled, copy is enabled iff the trimmed output is non-empty, the recorded
\* error message is cleared, and the status is the error message if the worker
\* emitted an error during this request, else 'Completed.' if the output is
\* non-empty, else 'No response received.'.
FinishedSetsReadyByPriority ==
    [][FinishedHandled =>
          LET errors == Args(workers[Head(queue).id].events, {"error"})
              has_output == Truthy(strip(output))
          IN /\ app'.worker = 0
             /\ ui'.submit_enabled /\ ui'.clear_enabled
             /\ ui'.copy_enabled = has_output
             /\ IsNone(app'.last_error_message)
             /\ ui'.status = IF errors # <<>> THEN Warning(errors[1])
                             ELSE IF has_output THEN <<"Completed.">>
                             ELSE <<"No response received.">>]_vars

---------------------------------------------------------------------------
(* Properties of the output buffer *)

RECURSIVE Concat(_)
\* c1 + ... + cn
Concat(chunks) == IF chunks = <<>> THEN <<>> ELSE Head(chunks) \o Concat(Tail(chunks))

\* the worker whose signal is about to be handled
Sender == workers[Head(queue).id]

\* the finished signal of a worker that yielded at least one fragment and did not
\* fail is handled
CleanFinishedHandled ==
    /\ FinishedHandled
    /\ IsNone(Sender.raised)
    /\ Sender.yielded # <<>>

\* C11 as stated: after the finished event of a worker that yielded c1..cn (n >= 1)
\* without error, the output is c1+...+cn, the status is 'Completed.', copy is
\* enabled and self.worker is None.
CleanStreamCompletes ==
    [][CleanFinishedHandled =>
          /\ output' = Concat(Sender.yielded)
          /\ ui'.status = <<"Completed.">>
          /\ ui'.copy_enabled
          /\ app'.worker = 0]_vars

\* C11: after the finished event of a worker that yielded c1..cn (n >= 1) without
\* error, the output is c1+...+cn and self.worker is None; when that text is
\* non-empty once trimmed the status is 'Completed.' and copy is enabled, otherwise
\* the status is 'No response received.' and copy is disabled.
CleanStreamCompletesUnlessBlank ==
    [][CleanFinishedHandled =>
          /\ output' = Concat(Sender.yielded)
          /\ app'.worker = 0
          /\ IF Blank(Concat(Sender.yielded))
             THEN ui'.status = <<"No response received.">> /\ ~ui'.copy_enabled
             ELSE ui'.status = <<"Completed.">> /\ ui'.copy_enabled]_vars

\* C11 happens: a request of two different fragments has completed
TwoFragmentsCompleted ==
    /\ output \in {<<"a", " ">>, <<" ", "a">>}
    /\ ui.status = <<"Completed.">>
    /\ ui.copy_enabled
    /\ app.worker = 0
    /\ started.workers >= 1

\* s is the beginning of t
IsPrefix(s, t) == Len(s) <= Len(t) /\ SubSeq(t, 1, Len(s)) = s

\* s is the end of t
IsSuffix(s, t) == Len(s) <= Len(t) /\ SubSeq(t, Len(t) - Len(s) + 1, Len(t)) = s

\* the error signal of a request worker is handled
ErrorHandled ==
    /\ queue # <<>>
    /\ Head(queue).kind = "worker" /\ Head(queue).sig = "error"
    /\ Deliver

\* C12: between an accepted submission and its finished event every step only
\* extends the output: the text received so far, whitespace-only or not, stays a
\* prefix of it, and the handled error puts the prefixed message at its end.
OutputAppendOnlyWhileStreaming ==
    [][/\ app.worker # 0 => IsPrefix(output, output')
       /\ ErrorHandled => IsSuffix(Warning(Head(queue).arg), output')]_vars

---------------------------------------------------------------------------
(* Properties of client activation and of applying settings *)

\* _activate_service(api_key, model_name) is called as a method
ActivateCalled(api_key, model_name) ==
    /\ "_activate_service" \in direct /\ MainWindow(TRUE)
    /\ Commit(activate_service(World, api_key, model_name).w)

\* constructing a client for the key and the model raises
ConstructionFails(api_key, model_name) ==
    GeminiService_init(api_key, model_name).kind = "raise"

\* C13: when the construction of the client fails, _activate_service returns False,
\* the client reference is None afterwards, the stored api_key is the empty string,
\* settings.model_name is what it was before the call, and the status is the
\* failure message.
FailedActivationClearsClientAndKey ==
    [][\A api_key \in CallKeys, model_name \in ModelNames :
          (ConstructionFails(api_key, model_name) /\ ActivateCalled(api_key, model_name))
          => /\ ~activate_service(World, api_key, model_name).ok
             /\ IsNone(app'.gemini_service)
             /\ app'.api_key = <<>>
             /\ app'.settings.model_name = app.settings.model_name
             /\ ui'.status = Warning(GeminiService_init(api_key, model_name).exc.msg)]_vars

\* _apply_settings(settings) is called as a method
ApplyCalled(settings) ==
    /\ "_apply_settings" \in direct /\ MainWindow(TRUE)
    /\ Commit(apply_settings(World, settings))

\* the condition under which _apply_settings has to activate a client
ActivationNeeded(settings) ==
    \/ settings.api_key # app.api_key
    \/ settings.model_name # app.settings.model_name
    \/ IsNone(app.gemini_service)

\* _apply_settings(settings) is called, needs an activation, and the activation fails
ApplyAborted(settings) ==
    /\ ActivationNeeded(settings)
    /\ ConstructionFails(settings.api_key, settings.model_name)
    /\ ApplyCalled(settings)

\* the calls of the last handler to `fn`
CallsTo(fn) == SelectSeq(calls, LAMBDA c : c.fn = fn)

\* C14: when _apply_settings needs an activation and the activation fails,
\* config.api_key, settings.default_language, settings.model_name and the selection
\* of the language selector are unchanged, save_config is not invoked (nothing is
\* written), and the blocking error box is shown.
AbortedApplyKeepsConfig ==
    [][\A settings \in CallSettings :
          ApplyAborted(settings)
          => /\ app'.config_api_key = app.config_api_key
             /\ app'.settings = app.settings
             /\ lang_combo' = lang_combo
             /\ CallsTo("save_config")' = <<>>
             /\ disk' = disk
             /\ stack' = Append(stack, Msg("critical", "Gemini Error", "none"))]_vars

\* C14 happens: after settings had been saved once, an application was aborted and
\* its error box is open; what was saved differs from what the aborted call asked for
ApplyAbortedAfterASave ==
    /\ stack # <<>> /\ TopFrame = Msg("critical", "Gemini Error", "none")
    /\ Len(CallsTo("GeminiService")) = 1
    /\ CallsTo("GeminiService")[1].arg.api_key = <<>>
    /\ CallsTo("GeminiService")[1].arg.model_name = DEFAULT_MODEL_NAME
    /\ ~IsNone(disk)
    /\ Val(disk).settings.model_name # DEFAULT_MODEL_NAME
    /\ lang_combo.code = "cs"

\* C15: a settings application aborted by an activation failure changes nothing on
\* the way: the status text and the client that was active before the call are the
\* same after _apply_settings has shown its error box.
AbortedApplyKeepsStatusAndClient ==
    [][\A settings \in CallSettings :
          ApplyAborted(settings)
          => /\ ui'.status = ui.status
             /\ app'.gemini_service = app.gemini_service]_vars

\* the configuration that holds the accepted values
AcceptedConfig(settings) ==
    [api_key |-> settings.api_key,
     settings |-> [default_language |-> settings.default_language,
                   model_name |-> settings.model_name]]

\* C16: _apply_settings attempts an activation, once and with the new key and model,
\* iff the new key differs from the current key, or the new model differs from
\* settings.model_name, or no client is active; when the activation succeeds or
\* was not needed, settings.default_language, settings.model_name (which is
\* config.settings) and config.api_key are the accepted values, save_config is
\* invoked exactly once with that configuration, and the status is 'Settings saved.'.
ApplyActivatesIffNeededThenSaves ==
    [][\A settings \in CallSettings :
          ApplyCalled(settings)
          => /\ CallsTo("GeminiService")' =
                   IF ActivationNeeded(settings)
                   THEN <<[fn |-> "GeminiService",
                           arg |-> [api_key |-> settings.api_key,
                                    model_name |-> settings.model_name]]>>
                   ELSE <<>>
             /\ (ActivationNeeded(settings)
                    => ~ConstructionFails(settings.api_key, settings.model_name))
                => /\ app'.settings = AcceptedConfig(settings).settings
                   /\ app'.config_api_key = settings.api_key
                   /\ CallsTo("save_config")' =
                          <<[fn |-> "save_config", arg |-> AcceptedConfig(settings)]>>
                   /\ disk' = Some(AcceptedConfig(settings))
                   /\ ui'.status = <<"Settings saved.">>]_vars

\* C16 happens: settings were applied without an activation, the key and the model
\* being the current ones and a client being active, and were saved
AppliedWithoutActivation ==
    /\ Len(calls) = 1 /\ calls[1].fn = "save_config"
    /\ ui.status = <<"Settings saved.">>
    /\ ~IsNone(app.gemini_service)
    /\ Val(app.gemini_service).api_key = app.config_api_key
    /\ disk = Some([api_key |-> app.config_api_key, settings |-> app.settings])

---------------------------------------------------------------------------
(* Properties of copy_output and reset_copy_btn *)

\* copy_output is called
CopyCalled == CopyCallable /\ Commit(copy_output(World))

\* C17: copy_output on an output that is empty once trimmed does not touch the
\* clipboard, schedules no timed reset, and leaves the copy button disabled with
\* its default label, whatever the button was before the call.
CopyOfNothingOnlyResetsButton ==
    [][(Blank(output) /\ CopyCalled)
          => /\ CallsTo("setText")' = <<>>
             /\ clipboard' = clipboard
             /\ timers' = timers
             /\ ~ui'.copy_enabled
             /\ ui'.copy_text = COPY_DEFAULT_TEXT
             /\ output' = output]_vars

\* C17 happens: copy_output runs on a whitespace-only output while the button still
\* shows 'Copied' from an earlier copy whose reset is pending, and resets the label
CopyOfWhitespaceResetsLabel ==
    /\ output # <<>> /\ Blank(output)
    /\ ui.copy_text = "Copied" /\ timers.copy = 1
    /\ ~IsNone(clipboard)
    /\ ENABLED (CopyCalled /\ ui'.copy_text = COPY_DEFAULT_TEXT)

\* C18: copy_output on an output that is not empty once trimmed puts the trimmed
\* output on the clipboard, labels the copy button 'Copied', disables it and
\* schedules one reset; when a scheduled reset fires, the default label is back and
\* the button is enabled iff the output is not empty once trimmed at that moment.
CopyThenTimedReset ==
    [][/\ (~Blank(output) /\ CopyCalled)
          => /\ CallsTo("setText")' = <<[fn |-> "setText", arg |-> strip(output)]>>
             /\ clipboard' = Some(strip(output))
             /\ ui'.copy_text = "Copied"
             /\ ~ui'.copy_enabled
             /\ timers'.copy = timers.copy + 1
       /\ CopyTimer
          => /\ ui'.copy_text = COPY_DEFAULT_TEXT
             /\ ui'.copy_enabled = ~Blank(output)
             /\ output' = output
             /\ timers'.copy = timers.copy - 1]_vars

\* C18 happens: a text was copied, the button shows 'Copied', a new request has
\* emptied the output since, and the pending reset fires and leaves the button disabled
ResetFiresOverEmptiedOutput ==
    /\ clipboard = Some(<<"a">>)
    /\ ui.copy_text = "Copied" /\ timers.copy = 1
    /\ Blank(output)
    /\ ENABLED (CopyTimer /\ ~ui'.copy_enabled /\ ui'.copy_text = COPY_DEFAULT_TEXT)

---------------------------------------------------------------------------
(* Properties of shutdown and startup *)

\* closeEvent runs: the close button, or self.close() after the last error box
Closes == ~app.closed /\ app'.closed

\* the thread a reference of the window points to is running
RefRunning(ref, threads) == ref # 0 /\ threads[ref].pc # "stopped"

\* C19: closeEvent returns whether or not the threads stop: for each of self.worker
\* and self._key_validator that is running it requests interruption and waits
\* once, with a timeout (1500 ms for the worker, 500 ms for the validator), it waits
\* for no thread that is not running, the threads are where they were, and
\* afterwards self.worker and self._key_validator are both None.
CloseInterruptsWaitsBoundedAndDrops ==
    [][Closes =>
          LET cw == app.worker
              cv == app.key_validator
              waitW == IF RefRunning(cw, workers)
                       THEN <<[fn |-> "wait", arg |-> [thread |-> "worker", msecs |-> 1500]]>>
                       ELSE <<>>
              waitV == IF RefRunning(cv, validators)
                       THEN <<[fn |-> "wait", arg |-> [thread |-> "validator", msecs |-> 500]]>>
                       ELSE <<>>
          IN /\ RefRunning(cw, workers)
                   => workers'[cw] = [workers[cw] EXCEPT !.interrupted = TRUE]
             /\ RefRunning(cv, validators)
                   => validators'[cv] = [validators[cv] EXCEPT !.interrupted = TRUE]
             /\ \A id \in DOMAIN workers' \ {cw} : workers'[id] = workers[id]
             /\ \A id \in DOMAIN validators' \ {cv} : validators'[id] = validators[id]
             /\ CallsTo("wait")' = waitW \o waitV
             /\ app'.worker = 0
             /\ app'.key_validator = 0]_vars

\* C19 happens: the window was closed over a worker in mid-stream and a validator,
\* both were asked to stop and waited for, neither has stopped, neither is referred to
ClosedOverRunningThreads ==
    /\ app.closed
    /\ Len(CallsTo("wait")) = 2
    /\ app.worker = 0 /\ app.key_validator = 0
    /\ \E id \in DOMAIN workers : workers[id].pc = "iter" /\ workers[id].interrupted
    /\ \E id \in DOMAIN validators : validators[id].pc # "stopped" /\ validators[id].interrupted

\* a startup validator's signal `sig` is handled
StartupHandled(sig) ==
    /\ queue # <<>>
    /\ Head(queue).kind = "validator" /\ Head(queue).slot = "startup"
    /\ Head(queue).sig = sig
    /\ Deliver

\* the warning _on_startup_key_failed shows
IsStoredKeyWarning(frame) ==
    frame.k = "msg" /\ frame.icon = "warning" /\ frame.title = "API Key Required"

\* _init_services: exactly one validator, for the stored key and the stored model, iff
\* the stored key is not empty; else no validator, the 'API key required' status,
\* and the settings flow left to a timer (no window is opened by the call)
InitServicesStartsValidatorIffKey ==
    InitServices =>
        IF app.api_key # <<>>
        THEN /\ DOMAIN validators' = {1}
             /\ started'.validators = 1
             /\ app'.key_validator = 1
             /\ validators'[1].pc = "run"
             /\ validators'[1].api_key = app.api_key
             /\ validators'[1].model_name = app.settings.model_name
             /\ stack' = <<>> /\ ~timers'.settings
        ELSE /\ validators' = <<>>
             /\ started'.validators = 0
             /\ ui'.status = <<"API key required. Open settings to continue.">>
             /\ stack' = <<>>
             /\ timers'.settings
             /\ app' = app

\* the deferred timer opens the settings flow with the key required
TimerOpensSettings ==
    SettingsTimer =>
        /\ Len(stack') = Len(stack) + 1
        /\ stack'[Len(stack')].k = "dlg" /\ stack'[Len(stack')].require_key

\* the failure of the startup validator: a warning is shown, and the settings flow
\* is opened with the key required once the warning is dismissed
StartupFailureWarnsThenOpensSettings ==
    /\ StartupHandled("failure")
          => /\ Len(stack') = Len(stack) + 1
             /\ IsStoredKeyWarning(stack'[Len(stack')])
             /\ ui'.status = Warning(Head(queue).arg)
             /\ app'.gemini_service = app.gemini_service
    /\ (stack # <<>> /\ IsStoredKeyWarning(TopFrame) /\ MsgDismiss)
          => /\ Len(stack') = Len(stack)
             /\ stack'[Len(stack')].k = "dlg"
             /\ stack'[Len(stack')].require_key
             /\ stack'[Len(stack')].result = "open"

\* C20: at startup _init_services starts exactly one validator, with the stored key
\* and the stored model, iff the stored key is not empty, and otherwise only sets
\* the 'API key required' status, the settings flow being opened later by a timer;
\* when the startup validator succeeds, a client bound to the key and the model it
\* was started with is activated and the status is 'Ready.'; when it fails, a
\* warning is shown and the settings flow is opened with the key required.
StartupValidatesStoredKey ==
    [][/\ InitServicesStartsValidatorIffKey
       /\ TimerOpensSettings
       /\ StartupFailureWarnsThenOpensSettings
       /\ StartupHandled("success")
             => /\ app'.gemini_service =
                       Some([api_key |-> Head(queue).arg,
                             model_name |-> validators[Head(queue).id].model_name])
                /\ Head(queue).arg = validators[Head(queue).id].api_key
                /\ ui'.status = <<"Ready.">>]_vars

---------------------------------------------------------------------------
(* Properties of the settings dialog and its validation *)

\* Save is pressed in the innermost settings dialog with `entry` in its fields
SaveClicked(entry) ==
    /\ Running /\ TopIs("dlg")
    /\ TopFrame.result = "open" /\ ~TopFrame.busy
    /\ Commit(on_save_clicked(World, entry))

\* the trimmed key of `entry` is not empty and not the key the dialog was opened with
IsCandidateKey(entry) ==
    /\ ~Blank(entry.api_key)
    /\ strip(entry.api_key) # TopFrame.initial_api_key

\* the outcome `sig` of a validator started for a settings dialog is handled
SettingsOutcomeHandled(sig) ==
    /\ queue # <<>>
    /\ Head(queue).kind = "validator" /\ Head(queue).slot = "settings"
    /\ Head(queue).sig = sig
    /\ Deliver

\* the position on the stack of the dialog the handled outcome belongs to, 0 if none
OutcomeDialog == FrameOf(World, Head(queue).dialog)

\* C21: for a validation requested by the settings dialog a validator is started for
\* exactly the candidate key and model; on its success the dialog is told to close
\* with the candidate payload and the status becomes 'API key validated.'; on its
\* failure the dialog stays open, its inputs are re-enabled, the message is shown
\* inline, no final settings are recorded and no settings are applied.
SettingsValidationNotifiesDialog ==
    [][/\ \A entry \in DialogEntries :
             (TopIs("dlg") /\ IsCandidateKey(entry) /\ SaveClicked(entry))
             => LET id == started.validators + 1
                IN /\ started'.validators = id
                   /\ app'.key_validator = id
                   /\ validators'[id].api_key = strip(entry.api_key)
                   /\ validators'[id].model_name = entry.model_name
                   /\ validators'[id].payload = get_settings(entry)
                   /\ validators'[id].dialog = TopFrame.id
                   /\ validators'[id].pc = "run"
       /\ SettingsOutcomeHandled("success")
             => /\ Head(queue).payload = validators[Head(queue).id].payload
                /\ ui'.status = <<"API key validated.">>
                /\ OutcomeDialog # 0
                      => stack' = [stack EXCEPT
                                      ![OutcomeDialog].final_settings = Some(Head(queue).payload),
                                      ![OutcomeDialog].status = <<DONE, " ", "API key validated.">>,
                                      ![OutcomeDialog].result = "accepted"]
       /\ SettingsOutcomeHandled("failure")
             => /\ ui'.status = Warning(Head(queue).arg)
                /\ app' = app /\ disk' = disk /\ lang_combo' = lang_combo
                /\ OutcomeDialog # 0
                      => /\ IsNone(stack[OutcomeDialog].final_settings)
                         /\ stack' = [stack EXCEPT
                                         ![OutcomeDialog].busy = FALSE,
                                         ![OutcomeDialog].status = Warning(Head(queue).arg)]]_vars

\* C21 happens: a validation the dialog asked for has failed and the dialog shows it
FailureShownInDialog ==
    /\ stack # <<>>
    /\ TopFrame.k = "dlg" /\ TopFrame.result = "open" /\ ~TopFrame.busy
    /\ TopFrame.status = Warning(<<"bad key">>)
    /\ ui.status = Warning(<<"bad key">>)
    /\ IsNone(TopFrame.final_settings)

---------------------------------------------------------------------------
(* Properties of the mode buttons and of the prompt *)

\* the prompt _build_prompt returns for `text` in the current mode
PromptNow(text) ==
    IF app.mode = "fix" THEN build_grammar_prompt(text)
    ELSE build_translation_prompt(text, from_code(lang_combo.code))

\* a submission of `typed` is accepted: on_submit goes on to start a worker
SubmitAccepted(typed) == SubmitCreatesWorker(World, typed) /\ OnSubmit(typed)

\* what a mode button leaves alone
ModeSwitchFrame ==
    /\ app'.worker = app.worker
    /\ app'.key_validator = app.key_validator
    /\ app'.gemini_service = app.gemini_service
    /\ workers' = workers
    /\ validators' = validators
    /\ queue' = queue
    /\ output' = output
    /\ ui'.submit_enabled = ui.submit_enabled
    /\ ui'.clear_enabled = ui.clear_enabled
    /\ ui'.copy_enabled = ui.copy_enabled

\* C22: switching mode at any time changes only the mode, the visibility of the
\* language selector (visible iff Translate) and the status text: the worker
\* reference, the running worker and its prompt, the key validator, the output and
\* the enabled-states of the buttons are unchanged, and the mode determines the
\* prompt only of the submissions accepted after the switch.
ModeSwitchOnlyChangesMode ==
    [][/\ ModeFix
             => /\ ModeSwitchFrame
                /\ app' = [app EXCEPT !.mode = "fix"]
                /\ lang_combo' = [lang_combo EXCEPT !.visible = FALSE]
                /\ ui' = [ui EXCEPT !.status = <<"Grammar mode active.">>]
       /\ ModeTranslate
             => /\ ModeSwitchFrame
                /\ app' = [app EXCEPT !.mode = "translate"]
                /\ lang_combo' = [lang_combo EXCEPT !.visible = TRUE]
                /\ ui' = [ui EXCEPT !.status =
                             <<"Translate mode to ", from_code(lang_combo.code).label, ".">>]
       /\ \A id \in DOMAIN workers \cap DOMAIN workers' :
             workers'[id].prompt = workers[id].prompt
       /\ \A typed \in Inputs :
             SubmitAccepted(typed)
             => workers'[app'.worker].prompt = PromptNow(strip(typed))]_vars

\* C22 happens: the mode was switched to Translate while a grammar request streams
SwitchedWhileGrammarRequestRuns ==
    /\ app.mode = "translate" /\ lang_combo.visible
    /\ ui.status = <<"Translate mode to ", "English", ".">>
    /\ app.worker # 0
    /\ workers[app.worker].pc = "iter"
    /\ workers[app.worker].prompt = build_grammar_prompt(<<"x">>)
    /\ output # <<>>

\* on_submit is called with one of the texts in the input field
OnSubmitText(typed) == SubmitCallable /\ Commit(on_submit(World, typed))

\* the token occurs in the text
Contains(text, token) == \E i \in 1..Len(text) : text[i] = token

\* the entry of `Language` the selector shows
SelectedLanguage == Language[CHOOSE i \in 1..Len(Language) : Language[i].code = lang_combo.code]

\* C23: for both modes and every target language the prompt of an accepted
\* submission ends with the trimmed input text, unmodified, and the translate prompt
\* contains the display name and the upper-cased code of the target language.
PromptEndsWithTrimmedInput ==
    [][\A typed \in Texts :
          (SubmitCreatesWorker(World, typed) /\ OnSubmitText(typed))
          => LET prompt == workers'[app'.worker].prompt
             IN /\ IsSuffix(strip(typed), prompt)
                /\ Len(prompt) > Len(strip(typed))
                /\ app.mode = "translate"
                      => /\ Contains(prompt, SelectedLanguage.label)
                         /\ Contains(prompt, upper(SelectedLanguage.code))]_vars

\* C23 happens: a text of two words is being translated to Japanese
TwoWordsToJapanese ==
    /\ app.worker # 0
    /\ IsSuffix(<<"\n", "\n", "x", " ", "y">>, workers[app.worker].prompt)
    /\ Contains(workers[app.worker].prompt, "Japanese")
    /\ Contains(workers[app.worker].prompt, "JA")
    /\ app.mode = "translate"

---------------------------------------------------------------------------
(* Properties of the language selector *)

\* _set_language_selection(code) is called as a method
SetLanguageCalled(code) ==
    /\ "_set_language_selection" \in direct /\ MainWindow(TRUE)
    /\ Commit(set_language_selection(World, code))

\* the codes that name the same language whatever their case
SameLanguage(code) ==
    {c \in LanguageCodes : code \in {c, upper(c)}}

\* Language.from_code(code) is a language: the one `code` names in either case, the
\* default one when it names none
FromCodeFallsBack(code) ==
    LET language == from_code(code)
    IN /\ \E i \in 1..Len(Language) : language = Language[i]
       /\ \A c \in SameLanguage(code) : language.code = c
       /\ SameLanguage(code) = {} => language.code = DEFAULT_LANGUAGE_CODE

\* C24: after _set_language_selection(code) with a code that is not one of the
\* supported codes the selector's current code is the default code, whatever was
\* selected before; Language.from_code is total, case-insensitive and returns the
\* default language for an unrecognized or missing code.
UnknownCodeSelectsDefault ==
    [][\A code \in CallCodes :
          SetLanguageCalled(code)
          => /\ code \notin LanguageCodes => lang_combo'.code = DEFAULT_LANGUAGE_CODE
             /\ code \in LanguageCodes => lang_combo'.code = code
             /\ FromCodeFallsBack(code)
             /\ FromCodeFallsBack(upper(lang_combo.code))]_vars

\* C24 happens: Japanese is selected, the window is in Translate mode, and the call
\* with an unknown code is about to move the selector to the default language
UnknownCodeOverJapanese ==
    /\ lang_combo.code = "ja"
    /\ app.mode = "translate"
    /\ ENABLED (/\ SetLanguageCalled("xx")
                /\ lang_combo'.code = DEFAULT_LANGUAGE_CODE
                /\ ui'.status = <<"Translate mode to ", "English", ".">>)

---------------------------------------------------------------------------
(* Properties of an accepted submission *)

\* what the output holds once the request of worker `t` is over: the text of its
\* fragments, then its error message if it failed; the message alone if the text is
\* blank
OutputOf(t) ==
    LET text == Concat(t.yielded)
        message == Warning(Val(t.raised).msg)
    IN IF IsNone(t.raised) THEN text
       ELSE IF Blank(text) THEN message
       ELSE text \o <<"\n", "\n">> \o message

\* C25: every accepted submission starts clean: when its worker is started the
\* output is empty, the recorded error message is None, the buttons are in the
\* processing state and exactly one worker has been created and stored in
\* self.worker; the output after completion holds nothing of an earlier request.
AcceptedSubmissionStartsClean ==
    [][/\ \A typed \in Inputs :
             SubmitAccepted(typed)
             => LET id == started.workers + 1
                IN /\ output' = <<>>
                   /\ IsNone(app'.last_error_message)
                   /\ ~ui'.submit_enabled /\ ~ui'.clear_enabled /\ ~ui'.copy_enabled
                   /\ ui'.submit_text = "Generating"
                   /\ started'.workers = id
                   /\ DOMAIN workers' \ DOMAIN workers = {id}
                   /\ app'.worker = id
                   /\ workers'[id].pc = "iter" /\ workers'[id].events = <<>>
       /\ FinishedHandled
             => /\ output' = OutputOf(Sender)
                /\ app.worker = Head(queue).id]_vars

\* C25 happens: the first request left text and an error in the output, and a second
\* submission is about to be accepted and to empty it
SecondSubmissionOverOldOutput ==
    /\ started.workers = 1
    /\ app.worker = 0
    /\ output = <<"a", "\n", "\n", WARN, " ", "boom">>
    /\ ENABLED (/\ OnSubmit(<<"x">>)
                /\ output' = <<>>
                /\ app'.worker = 2)

---------------------------------------------------------------------------
(* Properties of UIStateManager *)

\* C26: start_processing from any state of the widgets disables submit, clear and
\* copy and sets the submit label to the working indicator, leaves the status text
\* and the copy label unchanged, and is idempotent: calling it twice yields the
\* state of calling it once.  on_submit applies it to the widgets as they are.
StartProcessingDisablesAndIsIdempotent ==
    [][LET u == start_processing(ui)
       IN /\ ~u.submit_enabled /\ ~u.clear_enabled /\ ~u.copy_enabled
          /\ u.submit_text = "Generating"
          /\ u.status = ui.status
          /\ u.copy_text = ui.copy_text
          /\ start_processing(u) = u
          /\ \A typed \in Inputs :
                SubmitAccepted(typed)
                => /\ ~ui'.submit_enabled /\ ~ui'.clear_enabled /\ ~ui'.copy_enabled
                   /\ ui'.submit_text = "Generating"
                   /\ ui'.copy_text = ui.copy_text
                   /\ start_processing(ui') = ui']_vars

\* C26 happens: a submission was accepted while the copy button still said 'Copied'
ProcessingOverCopiedLabel ==
    /\ ui.submit_text = "Generating"
    /\ ui.copy_text = "Copied"
    /\ ~ui.copy_enabled /\ ~ui.submit_enabled /\ ~ui.clear_enabled
    /\ app.worker # 0
    /\ output = <<>>
    /\ started.workers = 2

\* the widgets in the ready state
ReadyWidgets(message, copy_available) ==
    [submit_text |-> "Process", submit_enabled |-> TRUE, clear_enabled |-> TRUE,
     copy_text |-> "Copy", copy_enabled |-> copy_available, status |-> message]

\* status messages set_ready is called with
ReadyMessages == {<<"Ready.">>, <<"Completed.">>, <<"No response received.">>, <<"Cleared.">>}

\* the clear button is pressed
ClearPressed == MainWindow(ui.clear_enabled) /\ Commit(clear_all(World))

\* C27: set_ready(message, copy_available) from any prior state of the widgets
\* (processing and 'Copied' included) yields the same state: submit and clear enabled
\* with the default submit label, copy with its default label and enabled iff
\* copy_available, status equal to message ('Ready.' by default, as after
\* construction); mark_cleared() yields the state of set_ready('Cleared.', False).
SetReadyYieldsOneState ==
    [][/\ \A message \in ReadyMessages, copy_available \in BOOLEAN :
             set_ready(ui, message, copy_available) = ReadyWidgets(message, copy_available)
       /\ mark_cleared(ui) = set_ready(ui, <<"Cleared.">>, FALSE)
       /\ InitServices => ui = ReadyWidgets(<<"Ready.">>, FALSE)
       /\ ClearPressed => ui' = ReadyWidgets(<<"Cleared.">>, FALSE)
       /\ (FinishedHandled /\ IsNone(Sender.raised))
             => ui' = ReadyWidgets(IF Blank(output) THEN <<"No response received.">>
                                   ELSE <<"Completed.">>,
                                   ~Blank(output))]_vars

\* C27 happens: the window was cleared while the copy button still said 'Copied'
ClearedOverCopiedLabel ==
    /\ ui = ReadyWidgets(<<"Cleared.">>, FALSE)
    /\ timers.copy > 0
    /\ ~IsNone(clipboard)
    /\ output = <<>>

---------------------------------------------------------------------------
(* Properties of the threads towards the window *)

\* the signals still queued that the threads of `kind` emitted
Pending(kind) == SelectSeq(queue, LAMBDA e : e.kind = kind)

\* C28: worker and validator threads are pure event producers: a step of run() of a
\* worker or a validator never writes gemini_service, worker, _key_validator,
\* api_key, settings, _last_error_message or the output (nor any widget or modal
\* window); it only queues its events, and those fields change in the handlers of
\* the interactive thread alone.
ThreadsOnlyEmit ==
    [][Threads
          => /\ app' = app
             /\ output' = output
             /\ ui' = ui /\ lang_combo' = lang_combo /\ stack' = stack
             /\ clipboard' = clipboard /\ disk' = disk /\ timers' = timers
             /\ IsPrefix(queue, queue')]_vars

\* C28 happens: a stream has produced two fragments and ended, none of its events
\* has been handled yet and the window is as the submission left it
StreamOverNothingHandled ==
    /\ app.worker # 0
    /\ workers[app.worker].pc = "stopped"
    /\ Len(Pending("worker")) = 3
    /\ output = <<>>
    /\ ui.status = <<"Working with Gemini...">>
    /\ IsNone(app.last_error_message)

\* no validation is requested: no validator is created, started or replaced
NoValidationRequested ==
    /\ validators' = validators
    /\ started' = started
    /\ app'.key_validator = app.key_validator

\* C29: saving with a non-empty key equal to the key the dialog was opened with
\* accepts the dialog at once with the current payload and requests no validation,
\* even when the selected model is not the previous one; saving with an empty key
\* records no final settings, requests no validation and leaves the dialog open.
SameKeySkipsValidation ==
    [][\A entry \in DialogEntries :
          LET n == Len(stack)
              key == strip(entry.api_key)
          IN /\ (TopIs("dlg") /\ key # <<>> /\ key = TopFrame.initial_api_key
                    /\ SaveClicked(entry))
                   => /\ NoValidationRequested
                      /\ app' = app
                      /\ stack' = [stack EXCEPT ![n].final_settings = Some(get_settings(entry)),
                                                ![n].result = "accepted",
                                                ![n].status = <<>>]
             /\ (TopIs("dlg") /\ key = <<>> /\ SaveClicked(entry))
                   => /\ NoValidationRequested
                      /\ app' = app
                      /\ Len(stack') = n + 1
                      /\ SubSeq(stack', 1, n) = stack
                      /\ IsNone(stack'[n].final_settings)
                      /\ stack'[n].result = "open" /\ ~stack'[n].busy
                      /\ stack'[n + 1] = Msg("warning", "Missing API Key", "none")]_vars

\* C29 happens: the dialog was accepted without validation, with the key it was
\* opened with and a model that is not the model in use
AcceptedWithOtherModel ==
    /\ stack # <<>>
    /\ TopFrame.k = "dlg" /\ TopFrame.result = "accepted" /\ ~TopFrame.busy
    /\ TopFrame.status = <<>>
    /\ Val(TopFrame.final_settings).api_key = TopFrame.initial_api_key
    /\ Val(TopFrame.final_settings).model_name # app.settings.model_name
    /\ ~IsNone(app.gemini_service)

\* the validators started for dialog `id` whose outcome has not been handled yet
PendingFor(id) ==
    {v \in DOMAIN validators :
        /\ validators[v].slot = "settings" /\ validators[v].dialog = id
        /\ \/ validators[v].pc = "run"
           \/ \E j \in 1..Len(queue) :
                 /\ queue[j].kind = "validator" /\ queue[j].id = v
                 /\ queue[j].sig \in {"success", "failure"}}

\* the positions of the settings dialogs on the stack
Dialogs == {i \in 1..Len(stack) : stack[i].k = "dlg"}

\* C30: saving with a non-empty key that is not the initial key emits exactly one
\* validation request carrying the trimmed payload and makes the dialog busy (its
\* inputs and both buttons disabled); the dialog stays busy until
\* mark_validation_failure re-enables it or mark_validation_success accepts it, so
\* a dialog never has a second validation request pending.
NewKeyValidatesOnceWhileBusy ==
    [][/\ \A entry \in DialogEntries :
             (TopIs("dlg") /\ IsCandidateKey(entry) /\ SaveClicked(entry))
             => LET n == Len(stack)
                    id == started.validators + 1
                IN /\ started'.validators = id
                   /\ DOMAIN validators' \ DOMAIN validators = {id}
                   /\ validators'[id].payload = get_settings(entry)
                   /\ PendingFor(TopFrame.id) = {}
                   /\ stack'[n].busy /\ stack'[n].result = "open"
                   /\ IsNone(stack'[n].final_settings)
       /\ \A i \in Dialogs :
             /\ Cardinality(PendingFor(stack[i].id)) <= 1
             /\ (stack[i].busy /\ stack[i].result = "open")
                   => Cardinality(PendingFor(stack[i].id)) = 1
             /\ (stack[i].busy /\ i <= Len(stack') /\ stack'[i].k = "dlg"
                    /\ stack'[i].id = stack[i].id)
                   => \/ stack'[i].busy /\ stack'[i].result = stack[i].result
                      \/ /\ SettingsOutcomeHandled("failure")
                         /\ Head(queue).dialog = stack[i].id
                         /\ ~stack'[i].busy
                      \/ /\ SettingsOutcomeHandled("success")
                         /\ Head(queue).dialog = stack[i].id
                         /\ stack'[i].result = "accepted"
                      \/ /\ DialogReject /\ i = Len(stack)
                         /\ stack'[i].busy /\ stack'[i].result = "rejected"]_vars

\* C30 happens: a dialog opened over the stored key is busy validating another key
BusyValidatingNewKey ==
    /\ stack # <<>>
    /\ TopFrame.k = "dlg" /\ TopFrame.busy /\ TopFrame.result = "open"
    /\ TopFrame.initial_api_key = <<"k">>
    /\ \E v \in PendingFor(TopFrame.id) :
          /\ validators[v].payload.api_key = <<"j">>
          /\ validators[v].pc = "run"

---------------------------------------------------------------------------
(* Properties of the settings and of the stored configuration *)

\* dialog.exec() returns to open_settings with accepted final settings
AcceptedSettingsReturn ==
    /\ stack # <<>> /\ TopFrame.k = "dlg"
    /\ TopFrame.result = "accepted" /\ ~IsNone(TopFrame.final_settings)
    /\ DialogReturn

\* the settings and what is persisted of them
Persisted == <<app.settings, app.config_api_key, disk>>

\* C31: the settings are mutated only by the settings flow: no submit, mode switch,
\* change of the language selector, streaming event, copy, clear or startup
\* validation outcome changes settings.default_language, settings.model_name or the
\* persisted configuration; only an accepted settings application does, and it
\* stores and saves the accepted payload.
SettingsChangeOnlyWhenApplied ==
    [][/\ Persisted' # Persisted => AcceptedSettingsReturn
       /\ AcceptedSettingsReturn
             => LET final == Val(TopFrame.final_settings)
                IN /\ app'.settings = [default_language |-> final.default_language,
                                       model_name |-> final.model_name]
                   /\ disk' = Some([api_key |-> final.api_key, settings |-> app'.settings])]_vars

\* C31 happens: settings were saved, then the user switched to Translate, picked
\* another language than the saved default, ran a request and copied its output
WorkedAfterSettingsSaved ==
    /\ ~IsNone(disk)
    /\ Val(disk).settings = app.settings
    /\ app.mode = "translate"
    /\ lang_combo.code # app.settings.default_language
    /\ started.workers = 1 /\ app.worker = 0
    /\ ~IsNone(clipboard)

\* dialog.exec() returns to open_settings without accepted final settings
UnacceptedSettingsReturn ==
    /\ stack # <<>> /\ TopFrame.k = "dlg"
    /\ ~(TopFrame.result = "accepted" /\ ~IsNone(TopFrame.final_settings))
    /\ DialogReturn

\* the user dismisses the box open_settings shows before self.close()
CloseBoxDismissed ==
    /\ stack # <<>> /\ TopFrame.k = "msg" /\ TopFrame.then = "close"
    /\ MsgDismiss

\* not self.gemini_service or not self.api_key
NoClientOrKey == IsNone(app.gemini_service) \/ ~Truthy(app.api_key)

\* C32: open_settings(require_key=True) that ends without accepted settings closes
\* the window iff no client is active or the stored key is empty: exactly then it
\* shows the 'API Key Required' box and closes once the box is dismissed; otherwise,
\* and always with require_key=False, the return changes nothing of the window and
\* does not close it.
UnacceptedSettingsCloseIffNoClientOrKey ==
    [][/\ UnacceptedSettingsReturn
             => /\ <<app, ui, output, lang_combo, clipboard, disk, workers>>'
                    = <<app, ui, output, lang_combo, clipboard, disk, workers>>
                /\ stack' = IF TopFrame.require_key /\ NoClientOrKey
                            THEN Append(SubSeq(stack, 1, Len(stack) - 1),
                                        Msg("critical", "API Key Required", "close"))
                            ELSE SubSeq(stack, 1, Len(stack) - 1)
       /\ CloseBoxDismissed => app'.closed
       /\ Closes => CloseBoxDismissed \/ CloseWindow]_vars

\* C32 happens: a required-key dialog was rejected while a client with a key is
\* active, and open_settings returns to the main window without closing it
RequiredKeyRejectedOverClient ==
    /\ stack # <<>> /\ TopFrame.k = "dlg" /\ TopFrame.require_key
    /\ TopFrame.result = "rejected"
    /\ ~NoClientOrKey
    /\ ENABLED (UnacceptedSettingsReturn /\ stack' = <<>> /\ ~app'.closed)

---------------------------------------------------------------------------
(* Properties of the processing state *)

\* C33: while a request is in flight, from the accepted submission until its
\* finished event is handled, the copy button stays disabled, whatever the
\* interleaving with the pending timed reset of an earlier copy_output and with
\* arriving partial events.
CopyDisabledWhileInFlight == app.worker # 0 => ~ui.copy_enabled

\* the requests whose finished event has not been handled
InFlight == {id \in DOMAIN workers : ~workers[id].deleted}

\* C34: in every state before shutdown, whenever self.worker is set submit and
\* clear are disabled, and whenever self.worker is None and no handler is in
\* progress submit and clear are enabled; self.worker is set exactly while a
\* request is in flight, so the window is in the processing state exactly then.
ProcessingExactlyWhileInFlight ==
    ~app.closed =>
        /\ app.worker # 0 => ~ui.submit_enabled /\ ~ui.clear_enabled
        /\ (app.worker = 0 /\ stack = <<>>) => ui.submit_enabled /\ ui.clear_enabled
        /\ InFlight = IF app.worker = 0 THEN {} ELSE {app.worker}

\* C34 happens: the first request was finished and the window became ready again;
\* a second request is in flight, its stream has already raised, and the buttons
\* are still disabled
SecondRequestInFlight ==
    /\ ~app.closed /\ stack = <<>>
    /\ app.worker = 2 /\ started.workers = 2
    /\ workers[2].raised # <<>>
    /\ ~ui.submit_enabled /\ ~ui.clear_enabled

\* C35: if the worker has emitted an error, then whatever is invoked between the
\* error event and the finished event (an on_submit rejected because the worker is
\* still running included), the recorded error message is still present when
\* finished is handled and the final status is the error message, not 'Completed.'.
ErrorOutlivesOperations ==
    [][FinishedHandled =>
          LET errors == Args(workers[Head(queue).id].events, {"error"})
          IN errors # <<>>
                => /\ app.last_error_message = Some(errors[1])
                   /\ ui'.status = Warning(errors[1])]_vars

---------------------------------------------------------------------------
(* Properties of the required-key settings flow *)

\* open_settings called as a method over a stand-in dialog
OpenSettingsCalled(require_key, outcome) ==
    /\ "open_settings" \in direct /\ MainWindow(TRUE)
    /\ Commit(open_settings_return(World, StandInFrame(World, require_key, outcome)))

\* open_settings(require_key=True) gets its dialog's result: of the real dialog, or
\* of a stand-in
RequiredSettingsReturn ==
    \/ /\ stack # <<>> /\ TopFrame.k = "dlg" /\ TopFrame.require_key
       /\ DialogReturn
    \/ \E outcome \in StandInOutcomes : OpenSettingsCalled(TRUE, outcome)

\* open_settings is about to close the window
Closing == stack # <<>> /\ TopFrame.k = "msg" /\ TopFrame.then = "close"

\* C36: after open_settings(require_key=True), on every path (dialog rejected,
\* dialog accepted with the activation succeeding, skipped or failing) either a
\* client is active or the window is closed: the window is never left open without
\* a client after a required-key settings flow.
RequiredFlowEndsWithClientOrClose ==
    [][RequiredSettingsReturn
          => ~IsNone(app'.gemini_service) \/ Closing' \/ app'.closed]_vars

\* the finished signal of a validator's thread is handled by its _cleanup
CleanupHandled ==
    /\ queue # <<>>
    /\ Head(queue).kind = "validator" /\ Head(queue).sig = "finished"
    /\ Deliver

\* C37: the thread-finished cleanup of a validator clears self._key_validator only
\* if it still refers to that validator: when a superseded validator finishes after a
\* newer one was started the reference still is the newer one, and when the current
\* validator finishes the reference becomes None; nothing else of the window changes.
CleanupClearsOnlyOwnValidator ==
    [][CleanupHandled
          => /\ app'.key_validator =
                    IF app.key_validator = Head(queue).id THEN 0 ELSE app.key_validator
             /\ app' = [app EXCEPT !.key_validator = app'.key_validator]
             /\ ui' = ui /\ stack' = stack]_vars

\* C37 happens: the first validator finishes while the second, started after it, is
\* the current one, and the reference stays with the second
SupersededValidatorFinishes ==
    /\ queue # <<>>
    /\ Head(queue).kind = "validator" /\ Head(queue).sig = "finished"
    /\ Head(queue).id = 1 /\ app.key_validator = 2
    /\ ENABLED (CleanupHandled /\ app'.key_validator = 2)

\* C38: provided the client's stream terminates and queued events keep being
\* handled, every accepted submission is eventually followed by the handling of its
\* finished event, after which self.worker is None and submit is enabled again: the
\* window never stays in the processing state forever (unless it is closed first).
RequestEventuallyFinished ==
    \A id \in 1..MaxWorkers :
        (app.worker = id) ~> (app.closed \/ (app.worker = 0 /\ ui.submit_enabled))

\* C38 happens: two submissions were accepted and both have been finished; the
\* window is open and ready for the next one
BothRequestsFinished ==
    /\ ~app.closed
    /\ started.workers = 2 /\ app.worker = 0 /\ workers = <<>>
    /\ ui.submit_enabled

---------------------------------------------------------------------------
(* Properties of the active client *)

\* the active client, if any, is the client of the current key and model
ClientBound ==
    ~IsNone(app.gemini_service)
        => /\ Val(app.gemini_service).api_key = app.api_key
           /\ Val(app.gemini_service).model_name = app.settings.model_name

\* C39: in every state in which a client is active it is bound to exactly the
\* current api_key and settings.model_name (config.settings being the object
\* self.settings); a successful _activate_service(key, model) establishes this by
\* storing the client, the key and the model, and by returning True.
ActiveClientMatchesKeyAndModel ==
    /\ ClientBound
    /\ [][/\ ClientBound'
          /\ \A api_key \in CallKeys, model_name \in ModelNames :
                (~ConstructionFails(api_key, model_name) /\ ActivateCalled(api_key, model_name))
                => /\ activate_service(World, api_key, model_name).ok
                   /\ app' = [app EXCEPT
                                 !.gemini_service = Some([api_key |-> api_key,
                                                          model_name |-> model_name]),
                                 !.api_key = api_key,
                                 !.settings.model_name = model_name]]_vars

\* C39 happens: _activate_service was called with a key other than the configured
\* one and a client for that key and the current model is active
ActivatedWithOtherKey ==
    /\ ~IsNone(app.gemini_service)
    /\ app.api_key = <<"j">> /\ app.config_api_key # <<"j">>
    /\ Val(app.gemini_service) = [api_key |-> <<"j">>, model_name |-> app.settings.model_name]

====
